---------------------------- MODULE Spec2Model ----------------------------
(***************************************************************************)
(* Rover fleet / mothership communication plane.                           *)
(*                                                                         *)
(* The module models the MissionLink (ML) codec of missionlink.py at the   *)
(* byte level and the ML dispatcher of the mothership (class NaveMae in    *)
(* versaofinal/navemae.py): the READY / PROGRESS / DONE / ACK handlers of  *)
(* the UDP receive loop, the operator's assign_mission handler and the     *)
(* mirror rover list the dispatcher writes to.                             *)
(*                                                                         *)
(* A datagram is a sequence of bytes (naturals 0..255).  Python's None is  *)
(* the empty sequence and a present optional value v is <<v>>.  A Python   *)
(* dict is a function whose DOMAIN is the set of its keys.                 *)
(***************************************************************************)
EXTENDS Integers, Sequences, FiniteSets, TLC

(***************************************************************************)
(* Bounds of the model.                                                    *)
(***************************************************************************)
\* Highest sequence number a rover datagram carries in the model.
MaxRoverSeq == 2
\* The mothership stops answering once ml_seq has passed this value.
MaxMlSeq == 3
\* Number of assign_mission messages the operator sends.
MaxManual == 1
\* The same number where the handler is followed statement by statement.
MaxManualWs == 2

\* highest sequence number the rover allocates
MaxRoverMlSeq == 5

\* highest speed the random walk of the rover's speed reaches
MaxVel == 1

\* highest value the work counter of the rover reaches
MaxWorking == 3

(***************************************************************************)
(* Bounds of the runs in which the two ends of the Mission Link are joined. *)
(***************************************************************************)
\* "time.sleep(0.3)" in the PROGRESS loop against "time.sleep(self.rover.tick)" in
\* _cicloEnvio: the sleeps of the PROGRESS loop that end within one tick
MaxSonos == 1

\* the calls of moverRover in which random.choice leaves the rover without speed
MaxParados == 1

\* "timeout: float = 0.5" of send_reliable and "time.sleep(0.3)" against the tick of
\* 1.0: the calls of iterar that start while the thread of _cicloMissionLink stays
\* at one statement
MaxTicks == 1

\* the READY datagrams in a row, none of them answered with a mission, that the rover
\* is followed for while the operator has nothing queued for it
MaxProntos == 1

\* the datagrams the channel loses
MaxPerdas == 1

\* Bound of the runs in which one rover drains the automatic queue: the sequence
\* numbers the mothership allocates, for four MISSION replies and the NOMISSION
\* replies after them
MaxDrenaSeq == 10

\* Sequence numbers either end may allocate where the two ends are joined: more than
\* the datagrams of the missions of the model under the bounds above, so that no
\* end stops for lack of a sequence number.
MaxLinkSeq == 12 * MaxManual * (MaxSonos + MaxParados + MaxTicks + MaxProntos + MaxPerdas)

(***************************************************************************)
(* Python helpers.                                                         *)
(***************************************************************************)
None == <<>>

Some(v) == <<v>>

\* dict[k] = v
Put(d, k, v) == [x \in (DOMAIN d) \cup {k} |-> IF x = k THEN v ELSE d[x]]

\* dict.pop(k, None)
Del(d, k) == [x \in (DOMAIN d) \ {k} |-> d[x]]

\* dict.get(k): None when the key is absent
Get(d, k) == IF k \in DOMAIN d THEN Some(d[k]) ELSE None

EmptyDict == <<>>

\* dict.get(k, default)
DictGet(d, k, default) == IF k \in DOMAIN d THEN d[k] ELSE default

Min(a, b) == IF a < b THEN a ELSE b

Max(a, b) == IF a > b THEN a ELSE b

Pow2(n) == 2 ^ n

\* bitwise exclusive or of two naturals
RECURSIVE Xor(_, _)
Xor(a, b) ==
    IF a = 0 THEN b
    ELSE IF b = 0 THEN a
    ELSE ((a + b) % 2) + 2 * Xor(a \div 2, b \div 2)

\* bitwise and of two naturals
RECURSIVE BitAnd(_, _)
BitAnd(a, b) ==
    IF a = 0 \/ b = 0 THEN 0
    ELSE ((a % 2) * (b % 2)) + 2 * BitAnd(a \div 2, b \div 2)

\* bitwise or of two naturals
BitOr(a, b) == a + b - BitAnd(a, b)

(***************************************************************************)
(* struct.pack / struct.unpack, network byte order.                        *)
(***************************************************************************)
PackU8(n) == <<n>>

PackU16(n) == <<n \div 256, n % 256>>

PackU32(n) == <<(n \div 16777216) % 256, (n \div 65536) % 256, (n \div 256) % 256, n % 256>>

UnpackU16(b) == b[1] * 256 + b[2]

UnpackU32(b) == b[1] * 16777216 + b[2] * 65536 + b[3] * 256 + b[4]

\* floor(log2(n)) for n >= 1
RECURSIVE Log2(_)
Log2(n) == IF n <= 1 THEN 0 ELSE 1 + Log2(n \div 2)

\* IEEE-754 binary32 bit pattern of a natural number below 2^24 (exact).
F32Bits(n) ==
    IF n = 0 THEN 0
    ELSE LET e == Log2(n)
         IN  (e + 127) * 8388608 + (n - Pow2(e)) * Pow2(23 - e)

\* struct.pack("!f", n)
PackF32(n) == PackU32(F32Bits(n))

\* struct.unpack("!f", b) of the bit pattern of a natural number
UnpackF32(b) ==
    LET bits == UnpackU32(b)
        e == (bits \div 8388608) - 127
    IN  IF bits = 0 THEN 0
        ELSE Pow2(e) + ((bits % 8388608) \div Pow2(23 - e))

(***************************************************************************)
(* zlib.crc32.  A 32-bit value is kept as <<high 16 bits, low 16 bits>>.   *)
(***************************************************************************)
\* one shift-and-reduce step of the reflected CRC-32 (polynomial EDB88320)
CrcStep(c) ==
    LET hi == c[1] \div 2
        lo == (c[2] \div 2) + (c[1] % 2) * 32768
    IN  IF c[2] % 2 = 1 THEN <<Xor(hi, 60856), Xor(lo, 33568)>> ELSE <<hi, lo>>

RECURSIVE CrcSteps(_, _)
CrcSteps(c, n) == IF n = 0 THEN c ELSE CrcSteps(CrcStep(c), n - 1)

\* crc_table of zlib: the entries lo..hi; entry b of the table is at index b + 1
RECURSIVE CrcTableSlice(_, _)
CrcTableSlice(lo, hi) ==
    IF lo = hi THEN <<CrcSteps(<<0, lo>>, 8)>>
    ELSE LET mid == (lo + hi) \div 2
         IN  CrcTableSlice(lo, mid) \o CrcTableSlice(mid + 1, hi)

CrcTable == CrcTableSlice(0, 255)

\* exclusive or of two 4-bit values a and b, at [a + 1][b + 1]
RECURSIVE XorRow(_, _)
XorRow(a, n) == IF n = 0 THEN <<>> ELSE Append(XorRow(a, n - 1), Xor(a, n - 1))

RECURSIVE XorRows(_)
XorRows(n) == IF n = 0 THEN <<>> ELSE Append(XorRows(n - 1), XorRow(n - 1, 16))

XorTable == XorRows(16)

\* exclusive or of two 8-bit values
Xor8(a, b) ==
    16 * XorTable[(a \div 16) + 1][(b \div 16) + 1] + XorTable[(a % 16) + 1][(b % 16) + 1]

\* exclusive or of two 16-bit values
Xor16(a, b) == 256 * Xor8(a \div 256, b \div 256) + Xor8(a % 256, b % 256)

\* crc = table[(crc ^ byte) & 0xFF] ^ (crc >> 8)
CrcByte(c, byte) ==
    LET t == CrcTable[Xor8(c[2] % 256, byte) + 1]
    IN  <<Xor16(t[1], c[1] \div 256), Xor16(t[2], (c[2] \div 256) + (c[1] % 256) * 256)>>

\* The crc after the first n bytes.  The quantified c is a value, so that each
\* prefix is computed once.
RECURSIVE CrcFold(_, _)
CrcFold(data, n) ==
    IF n = 0 THEN <<65535, 65535>>
    ELSE CHOOSE r \in {CrcByte(c, data[n]) : c \in {CrcFold(data, n - 1)}} : TRUE

crc32(data) ==
    LET c == CrcFold(data, Len(data))
    IN  <<Xor16(c[1], 65535), Xor16(c[2], 65535)>>

(***************************************************************************)
(* missionlink.py: protocol constants.                                     *)
(***************************************************************************)
VERSION == 1

HEADER_SIZE == 20

TYPE_READY == 0

TYPE_MISSION == 1

TYPE_PROGRESS == 2

TYPE_DONE == 3

TYPE_ACK == 4

TYPE_NOMISSION == 5

TYPE_REQUESTMISSION == 6

FLAG_NEEDS_ACK == 1

FLAG_ACK_ONLY == 2

FLAG_RETX == 4

MISSION_SIZE == 19

PROGRESS_SIZE == 12

DONE_SIZE == 2

(***************************************************************************)
(* missionlink.py: the typed payloads.                                     *)
(***************************************************************************)
\* struct.pack("!BHffff", ...)
build_payload_mission(mission_id, task_number, x, y, radius, duracao) ==
    PackU8(mission_id) \o PackU16(task_number) \o PackF32(x) \o PackF32(y)
      \o PackF32(radius) \o PackF32(duracao)

parse_payload_mission(payload) ==
    IF Len(payload) # MISSION_SIZE THEN [ok |-> FALSE]
    ELSE [ok |-> TRUE,
          mission_id |-> payload[1],
          task_number |-> UnpackU16(SubSeq(payload, 2, 3)),
          x |-> UnpackF32(SubSeq(payload, 4, 7)),
          y |-> UnpackF32(SubSeq(payload, 8, 11)),
          radius |-> UnpackF32(SubSeq(payload, 12, 15)),
          duracao |-> UnpackF32(SubSeq(payload, 16, 19))]

\* struct.pack("!BBBBff", ...)
build_payload_progress(mission_id, status, percent, battery, x, y) ==
    PackU8(mission_id) \o PackU8(status) \o PackU8(percent) \o PackU8(battery)
      \o PackF32(x) \o PackF32(y)

parse_payload_progress(payload) ==
    IF Len(payload) # PROGRESS_SIZE THEN [ok |-> FALSE]
    ELSE [ok |-> TRUE,
          mission_id |-> payload[1],
          status |-> payload[2],
          percent |-> payload[3],
          battery |-> payload[4],
          x |-> UnpackF32(SubSeq(payload, 5, 8)),
          y |-> UnpackF32(SubSeq(payload, 9, 12))]

\* struct.pack("!BB", ...)
build_payload_done(mission_id, result_code) == PackU8(mission_id) \o PackU8(result_code)

parse_payload_done(payload) ==
    IF Len(payload) # DONE_SIZE THEN [ok |-> FALSE]
    ELSE [ok |-> TRUE, mission_id |-> payload[1], result_code |-> payload[2]]

\* the dict a payload parser returns, without the model's ok marker
InfoProgress(r) ==
    [mission_id |-> r.mission_id, status |-> r.status, percent |-> r.percent,
     battery |-> r.battery, x |-> r.x, y |-> r.y]

(***************************************************************************)
(* Mission generation.  random.randint is a choice from a small set.       *)
(***************************************************************************)
RandMissionIds == {1}

RandXs == {2}

RandYs == {3}

RandDuracoes == {30}

\* NaveMae.criaTarefa: the set of tuples the call may return
criaTarefa(task_id) ==
    {<<mission_id, task_id, x, y, 2, duracao>> :
        mission_id \in RandMissionIds, x \in RandXs, y \in RandYs, duracao \in RandDuracoes}

\* NaveMae.gerar_tarefas: the set of queues the call may leave in self.tarefas
gerar_tarefas(sc) ==
    CASE sc = 1 -> {<<>>}
      [] sc = 2 -> {<<t1, t2>> : t1 \in criaTarefa(1), t2 \in criaTarefa(2)}
      [] sc = 3 -> {<<>>}
      [] sc = 4 -> {<< <<1, 1, 2, 2, 2, 30>>, <<2, 2, 8, 3, 2, 35>>,
                      <<3, 3, 12, 10, 2, 40>>, <<4, 4, 5, 12, 2, 45>> >>}

(***************************************************************************)
(* The operator's messages.                                                *)
(***************************************************************************)
\* stream ids (rover ids) that send datagrams in the model
Streams == {1, 2}

\* the operator's assign_mission for rover r
assign_mission(r) ==
    [type |-> "assign_mission", rover_id |-> r, mission_id |-> 4, x |-> 5, y |-> 5,
     duracao |-> 90]

OperatorMessages == {assign_mission(r) : r \in Streams}

\* an assign_mission whose mission_id is outside 1..6
assign_mission_fora(r) == [assign_mission(r) EXCEPT !.mission_id = 9]

\* messages the handler discards: text that is no JSON, another type, a missing field
MensagensInvalidas ==
    {[invalid |-> TRUE],
     [type |-> "ping"],
     [type |-> "assign_mission", rover_id |-> 1, x |-> 5, y |-> 5]}

\* the tuple _ws_msg_recebida queues for an assign_mission message
missao_manual(message, task_id) ==
    <<message.mission_id, task_id, message.x, message.y,
      DictGet(message, "radius", 2), DictGet(message, "duracao", 60)>>

\* the missions the rover of the rover specification is sent: a target on the x axis,
\* three units from the start, radius 2.0, and a duration the operator chose
NaveMissoes == {<<1, 1001, 3, 0, 2, 2>>}

(***************************************************************************)
(* The missions of the model, and the checksums of their payloads.         *)
(***************************************************************************)
\* every mission a scenario or the operator can put in a queue of the model
Missoes ==
    UNION {criaTarefa(t) : t \in 1..(MaxMlSeq + 1)}
      \cup UNION {{q[i] : i \in DOMAIN q} : q \in gerar_tarefas(2) \cup gerar_tarefas(4)}
      \cup {missao_manual(message, 1000 + k) :
               message \in OperatorMessages \cup {assign_mission_fora(r) : r \in Streams},
               k \in 1..MaxManualWs}
      \cup NaveMissoes

\* <<payload, zlib.crc32(payload)>> of their MISSION payloads, computed once
MissionChecksums ==
    {<<p, crc32(p)>> :
        p \in {build_payload_mission(m[1], m[2], m[3], m[4], m[5], m[6]) : m \in Missoes}}

(***************************************************************************)
(* missionlink.py: header, checksum, whole messages.                       *)
(***************************************************************************)
MLHeader(version, msg_type, flags, hdr_len, seq, ack, stream_id, payload_len, checksum) ==
    [version |-> version, msg_type |-> msg_type, flags |-> flags, hdr_len |-> hdr_len,
     seq |-> seq, ack |-> ack, stream_id |-> stream_id, payload_len |-> payload_len,
     checksum |-> checksum]

\* a faulty variant of encode_header that packs ack before seq
encode_header_ack_seq(h) ==
    PackU8(h.version) \o PackU8(h.msg_type) \o PackU8(h.flags) \o PackU8(h.hdr_len)
      \o PackU32(h.ack) \o PackU32(h.seq) \o PackU16(h.stream_id)
      \o PackU16(h.payload_len) \o PackU16(h.checksum[1]) \o PackU16(h.checksum[2])

\* struct.pack("!BBBBIIHHI", ...); the checksum is <<high 16 bits, low 16 bits>>
encode_header(h) ==
    PackU8(h.version) \o PackU8(h.msg_type) \o PackU8(h.flags) \o PackU8(h.hdr_len)
      \o PackU32(h.seq) \o PackU32(h.ack) \o PackU16(h.stream_id)
      \o PackU16(h.payload_len) \o PackU16(h.checksum[1]) \o PackU16(h.checksum[2])

\* struct.unpack("!BBBBIIHHI", data[:HEADER_SIZE]); the caller has checked the length
decode_header(data) ==
    MLHeader(data[1], data[2], data[3], data[4],
             UnpackU32(SubSeq(data, 5, 8)), UnpackU32(SubSeq(data, 9, 12)),
             UnpackU16(SubSeq(data, 13, 14)), UnpackU16(SubSeq(data, 15, 16)),
             <<UnpackU16(SubSeq(data, 17, 18)), UnpackU16(SubSeq(data, 19, 20))>>)

\* zlib.crc32(payload) & 0xFFFFFFFF, or 0 for an empty payload
compute_checksum(payload) ==
    IF payload = <<>> THEN <<0, 0>>
    ELSE IF \E e \in MissionChecksums : e[1] = payload
         THEN (CHOOSE e \in MissionChecksums : e[1] = payload)[2]
    ELSE crc32(payload)

build_message(msg_type, seq, ack, stream_id, payload, flags) ==
    encode_header(MLHeader(VERSION, msg_type, flags, HEADER_SIZE, seq, ack, stream_id,
                           Len(payload), compute_checksum(payload))) \o payload

\* a faulty variant of parse_message that does not verify the checksum
parse_message_sem_checksum(data) ==
    IF Len(data) < HEADER_SIZE THEN [ok |-> FALSE]
    ELSE LET header == decode_header(SubSeq(data, 1, HEADER_SIZE))
             payload == SubSeq(data, HEADER_SIZE + 1,
                               Min(Len(data), HEADER_SIZE + header.payload_len))
         IN  IF Len(payload) # header.payload_len THEN [ok |-> FALSE]
             ELSE [ok |-> TRUE, header |-> header, payload |-> payload]

\* A raised ValueError is [ok |-> FALSE]; otherwise the header and the payload.
parse_message(data) ==
    IF Len(data) < HEADER_SIZE THEN [ok |-> FALSE]
    ELSE LET header == decode_header(SubSeq(data, 1, HEADER_SIZE))
             payload == SubSeq(data, HEADER_SIZE + 1,
                               Min(Len(data), HEADER_SIZE + header.payload_len))
         IN  IF Len(payload) # header.payload_len THEN [ok |-> FALSE]
             ELSE IF header.checksum # compute_checksum(payload) THEN [ok |-> FALSE]
             ELSE [ok |-> TRUE, header |-> header, payload |-> payload]

(***************************************************************************)
(* The mothership: state of class NaveMae.                                 *)
(***************************************************************************)
VARIABLES
    scenario,            \* NaveMae.scenario
    tarefas,             \* automatic mission queue
    task_counter,        \* counter of the unbounded scenario
    manual_missions,     \* dict rover_id -> list of missions
    manual_task_counter, \* task ids of manual missions
    ml_seq,              \* next outgoing ML sequence number
    ml_estado,           \* dict stream_id -> dispatcher record
    ml_last_seq,         \* dict stream_id -> highest inbound seq seen
    ml_pending_mission,  \* dict stream_id -> pending reply
    rovers,              \* the mirror rover list
    out,                 \* datagrams the last step handed to ml_sock.sendto
    last,                \* the handler branch the last step took
    done_seen,           \* per stream, the DONE datagrams handled since its last assignment
    confirmed,           \* per stream, the mission_seq values a matching ACK has confirmed
    rover,               \* RoverAPI.rover: the Rover of the rover process
    api,                 \* the MissionLink thread of RoverAPI: position, ml_seq, locals
    sim,                 \* the simulation thread of RoverAPI: position inside Rover.iterar
    rover_out,           \* datagrams the last step of the rover handed to ml_sock.sendto
    codec,               \* a call of an encoder and of its decoder: arguments and result
    ws,                  \* the thread of the operator's handler _ws_msg_recebida
    ciclo,               \* the thread of _cicloML: its position in the TYPE_ACK branch
    sender,              \* the thread of _ws_loop_envio, inside _enviar_dirty_rovers
    cliente,             \* the thread of _cicloCliente: its position in Rover.updateInfo
    link,                \* the UDP sockets of the Mission Link, where the two ends are joined
    passo                \* history: the thread that took the last step over the joined link

nave_vars == <<scenario, tarefas, task_counter, manual_missions, manual_task_counter, ml_seq,
               ml_estado, ml_last_seq, ml_pending_mission, rovers, out, last, done_seen,
               confirmed>>

rover_vars == <<rover, api, sim, rover_out>>

\* the mothership's threads, where a specification follows them statement by statement
thread_vars == <<ws, ciclo, sender, cliente, link, passo>>

\* what a step of the mothership, and what a step of the rover, leaves alone
fora_da_nave == <<rover, api, sim, rover_out, codec, thread_vars>>

fora_do_rover == <<nave_vars, codec, thread_vars>>

vars == <<scenario, tarefas, task_counter, manual_missions, manual_task_counter, ml_seq,
          ml_estado, ml_last_seq, ml_pending_mission, rovers, out, last, done_seen,
          confirmed, rover, api, sim, rover_out, codec, ws, ciclo, sender, cliente, link,
          passo>>

\* roversN in the main block of navemae.py
nRovers == 3

\* the UDP address a rover's datagrams come from
RoverAddr(sid) == <<"rover", sid>>

\* Rover(id=i): the fields of the mirror rover the dispatcher reads or writes, and of
\* the fields telemetry updates, state and progresso
Rover(id) ==
    [id |-> id, missao |-> 0, working |-> 0, dirty |-> FALSE, state |-> 0, progresso |-> 0]

\* Rover.to_dict, for the fields of the model
to_dict(r) == [id |-> r.id, state |-> r.state, miss |-> r.missao, pro |-> r.progresso]

\* Rover.atribiuMission
atribiuMission(r, miss) == [r EXCEPT !.missao = miss, !.working = 0]

\* self.rovers[i].atribiuMission(m) inside try/except: a Python list index, where a
\* negative i counts from the end and an i out of range raises IndexError (swallowed)
rovers_atribuir(rs, i, miss) ==
    LET n == Len(rs)
        pos == IF i >= 0 THEN i + 1 ELSE n + i + 1
    IN  IF i >= n \/ i < 0 - n THEN rs
        ELSE [rs EXCEPT ![pos] = atribiuMission(rs[pos], miss)]

(***************************************************************************)
(* The rover process: class RoverAPI and its Rover, as constructed.        *)
(***************************************************************************)
\* default of the parameter max_retries of send_reliable
max_retries == 5

\* default of the parameter tick of RoverAPI
tick == 1

\* self.ml_stream_id = rover_id: the rover process of the model is rover 1
ml_stream_id == 1

\* Rover(rover_id, tick=tick) with the defaults of the dataclass, which are also the
\* defaults of --dest and --vel.  The position and the target are <<x, y, z>>.
\* direcao, proc_use, storage and sensores are telemetry statistics and are left out;
\* so is bateria, which PROGRESS carries and no branch reads: the model sends 100.
RoverNovo ==
    [missao |-> 0, progresso |-> 0, state |-> 0, working |-> 0, duracao |-> 60,
     pos |-> <<0, 0, 0>>, destino |-> <<0, 0, 0>>, velocidade |-> 0]

\* the locals of _cicloMissionLink and send_reliable when they hold nothing; a local
\* that is not read again is put back to this value
ApiLocals ==
    [seq |-> 0, mission_id |-> 0, x |-> 0, y |-> 0, radius |-> 0, duracao |-> 0,
     nave_seq |-> 0, percent |-> 0, perto |-> FALSE, retries |-> 0, msg |-> <<>>,
     caller |-> ""]

\* RoverAPI.__init__ and the start of _cicloMissionLink.  feliz, feitas and hist are
\* history: the first mission ran without a timeout or an unexpected datagram so far,
\* the missions finished so far (up to 2), and the <<msg_type, seq>> of the datagrams
\* sent while feliz holds and no mission is finished.  falhou is history too:
\* send_reliable returned False for a PROGRESS and no READY was sent since.
ApiNovo ==
    [pc |-> "ready", ml_seq |-> 1, loc |-> ApiLocals, feliz |-> TRUE, feitas |-> 0,
     hist |-> <<>>, falhou |-> FALSE]

\* the thread of _cicloEnvio, about to call rover.iterar().  viu100 is history:
\* progresso was 100 when the call of iterar before the one that runs, or is about to
\* run, returned.
SimNovo == [pc |-> "iterar", ateAgora |-> 0, viu100 |-> FALSE]

\* the handler thread of the websocket server, waiting for a message; feitas is
\* history: the <<rover_id, missao>> of the calls that returned after their append
WsNovo == [pc |-> "recv", rover_id |-> 0, missao |-> <<>>, lista |-> "", feitas |-> {}]

\* the ML loop at recvfrom; consumidas is history: the missions fila_manual.pop(0) took
CicloNovo == [pc |-> "recvfrom", sid |-> 0, pending |-> <<>>, consumidas |-> {}]

\* the sender thread at the start of _enviar_dirty_rovers
SenderNovo == [pc |-> "to_dict", i |-> 1, ficheiro |-> <<>>]

\* a client thread waiting for a frame; fim is history: the thread decoded an END or a
\* FIN frame on its connection
ClienteNovo == [pc |-> "recv", estado |-> 0, missao |-> 0, pro |-> 0, fim |-> FALSE]

\* the thread back at its wait for a frame, on the same connection
ClienteEspera == [ClienteNovo EXCEPT !.fim = cliente.fim]

\* the two ends of the Mission Link apart: each takes its datagrams as inputs
SemLink ==
    [ligado |-> FALSE, nave |-> <<>>, rover |-> <<>>, sonos |-> 0, parados |-> 0,
     prontos |-> 0, ticks |-> 0, perdas |-> 0, cedo |-> FALSE, envios |-> 0, drena |-> FALSE]

\* the sequence numbers the two ends allocate: where they are joined a mission runs
\* from READY to the READY after DONE
limite_ml_seq ==
    IF link.ligado THEN MaxLinkSeq ELSE IF link.drena THEN MaxDrenaSeq ELSE MaxMlSeq

limite_rover_ml_seq == IF link.ligado THEN MaxLinkSeq ELSE MaxRoverMlSeq

\* no thread has taken a step over the joined link.  par tells two steps in a row of
\* the same thread apart.
SemPasso == [nome |-> "", par |-> FALSE]

\* the mothership and the rover process after construction
Programa ==
    /\ rover = RoverNovo
    /\ api = ApiNovo
    /\ sim = SimNovo
    /\ rover_out = <<>>
    /\ scenario \in 1..4
    /\ tarefas \in gerar_tarefas(scenario)
    /\ task_counter = 0
    /\ manual_missions = EmptyDict
    /\ manual_task_counter = 1000
    /\ ml_seq = 1
    /\ ml_estado = EmptyDict
    /\ ml_last_seq = EmptyDict
    /\ ml_pending_mission = EmptyDict
    /\ rovers = [i \in 1..nRovers |-> Rover(i - 1)]
    /\ out = <<>>
    /\ last = [branch |-> "init", sid |-> 0]
    /\ done_seen = [s \in Streams |-> {}]
    /\ confirmed = [s \in Streams |-> {}]
    /\ ws = WsNovo
    /\ ciclo = CicloNovo
    /\ sender = SenderNovo
    /\ cliente = ClienteNovo
    /\ passo = SemPasso

\* no encoder has been called
SemChamada == [fase |-> "nenhuma"]

Init == Programa /\ codec = SemChamada /\ link = SemLink

\* ml_sock.sendto(data, addr)
Sent(data, addr) == [data |-> data, addr |-> addr]

Branch(b, sid) == [branch |-> b, sid |-> sid]

(***************************************************************************)
(* NaveMae._ml_is_duplicate: the value returned and the dict it leaves.    *)
(***************************************************************************)
\* a faulty variant of ml_is_duplicate that finds no duplicate
ml_is_duplicate_nunca(stream_id, header) == FALSE

ml_is_duplicate(stream_id, header) ==
    LET l == Get(ml_last_seq, stream_id)
    IN  IF l = None THEN FALSE
        ELSE IF header.seq > l[1] THEN FALSE
        ELSE header.seq = l[1]

ml_is_duplicate_last_seq(stream_id, header) ==
    LET l == Get(ml_last_seq, stream_id)
    IN  IF l = None THEN Put(ml_last_seq, stream_id, header.seq)
        ELSE IF header.seq > l[1] THEN Put(ml_last_seq, stream_id, header.seq)
        ELSE ml_last_seq

\* a faulty variant of ack_msg that acknowledges nothing
ack_msg_sem_ack(seq, header, stream_id) ==
    build_message(TYPE_ACK, seq, 0, stream_id, <<>>, FLAG_ACK_ONLY)

\* the ACK-only reply every PROGRESS / DONE branch builds
ack_msg(seq, header, stream_id) ==
    build_message(TYPE_ACK, seq, header.seq, stream_id, <<>>, FLAG_ACK_ONLY)

(***************************************************************************)
(* NaveMae._ml_handle_ready                                                *)
(***************************************************************************)
\* a faulty variant of escolher_missao that looks at the scenario alone
escolher_missao_sem_manual(stream_id) ==
    IF scenario \in {1, 2, 4} THEN {IF tarefas # <<>> THEN Some(tarefas[1]) ELSE None}
    ELSE IF scenario = 3 THEN {Some(m) : m \in criaTarefa(task_counter + 1)}
    ELSE {None}

\* Mission choice: the manual queue first, then the scenario.  None is no mission.
escolher_missao(stream_id) ==
    LET fila_manual == Get(manual_missions, stream_id)
    IN  IF fila_manual # None /\ fila_manual[1] # <<>> THEN {Some(fila_manual[1][1])}
        ELSE IF scenario \in {1, 2, 4}
             THEN {IF tarefas # <<>> THEN Some(tarefas[1]) ELSE None}
        ELSE IF scenario = 3 THEN {Some(m) : m \in criaTarefa(task_counter + 1)}
        ELSE {None}

\* the dispatcher record written when a MISSION is sent
novo_estado(missao) ==
    [mission_id |-> missao[1], task_number |-> missao[2], target |-> <<missao[3], missao[4]>>,
     radius |-> missao[5], duracao |-> missao[6], ultimo_progress |-> None, done |-> FALSE]

\* a faulty variant of pending_entry that caches no reply
pending_entry_sem_resposta(mission_seq, reply_bytes, missao) ==
    [mission_seq |-> mission_seq, reply_bytes |-> <<>>, missao |-> missao]

pending_entry(mission_seq, reply_bytes, missao) ==
    [mission_seq |-> mission_seq, reply_bytes |-> reply_bytes, missao |-> missao]

ml_handle_ready(stream_id, header, addr) ==
    LET pending == Get(ml_pending_mission, stream_id)
    IN  IF pending # None
        THEN /\ out' = <<Sent(pending[1].reply_bytes, addr)>>
             /\ last' = Branch("ready_resend", stream_id)
             /\ UNCHANGED <<scenario, tarefas, task_counter, manual_missions,
                            manual_task_counter, ml_seq, ml_estado, ml_last_seq,
                            ml_pending_mission, rovers, done_seen, confirmed>>
        ELSE /\ ml_seq <= limite_ml_seq
             /\ \E escolha \in escolher_missao(stream_id) :
                  IF escolha = None
                  THEN LET msg == build_message(TYPE_NOMISSION, ml_seq, header.seq,
                                                stream_id, <<>>, FLAG_NEEDS_ACK)
                       IN  /\ ml_seq' = ml_seq + 1
                           /\ out' = <<Sent(msg, addr)>>
                           /\ ml_pending_mission' =
                                Put(ml_pending_mission, stream_id, pending_entry(None, msg, None))
                           /\ last' = Branch("ready_nomission", stream_id)
                           /\ UNCHANGED <<scenario, tarefas, task_counter, manual_missions,
                                          manual_task_counter, ml_estado, ml_last_seq,
                                          rovers, done_seen, confirmed>>
                  ELSE LET missao == escolha[1]
                           payload == build_payload_mission(missao[1], missao[2], missao[3],
                                                            missao[4], missao[5], missao[6])
                           msg == build_message(TYPE_MISSION, ml_seq, header.seq, stream_id,
                                                payload, FLAG_NEEDS_ACK)
                       IN  /\ ml_estado' = Put(ml_estado, stream_id, novo_estado(missao))
                           /\ rovers' = rovers_atribuir(rovers, stream_id - 1, missao[1])
                           /\ ml_seq' = ml_seq + 1
                           /\ out' = <<Sent(msg, addr)>>
                           /\ ml_pending_mission' =
                                Put(ml_pending_mission, stream_id,
                                    pending_entry(Some(ml_seq), msg, Some(missao)))
                           /\ last' = Branch("ready_mission", stream_id)
                           /\ done_seen' = [done_seen EXCEPT ![stream_id] = {}]
                           /\ UNCHANGED <<scenario, tarefas, task_counter, manual_missions,
                                          manual_task_counter, ml_last_seq, confirmed>>

(***************************************************************************)
(* NaveMae._ml_handle_progress                                             *)
(***************************************************************************)
\* a faulty variant of fora_de_contexto that waits for the ACK of the MISSION
fora_de_contexto_com_pendente(stream_id, mission_id) ==
    LET estado == Get(ml_estado, stream_id)
    IN  \/ estado = None
        \/ estado[1].mission_id # mission_id
        \/ Get(ml_pending_mission, stream_id) # None

\* a faulty variant of fora_de_contexto that does not compare the mission ids
fora_de_contexto_sem_comparar(stream_id, mission_id) == Get(ml_estado, stream_id) = None

\* "if not estado or estado.get('mission_id') != mission_id"
fora_de_contexto(stream_id, mission_id) ==
    LET estado == Get(ml_estado, stream_id)
    IN  estado = None \/ estado[1].mission_id # mission_id

ml_handle_progress(stream_id, header, payload, addr) ==
    LET info == parse_payload_progress(payload)
    IN  IF ~info.ok
        THEN /\ out' = <<>>
             /\ last' = Branch("progress_invalid", stream_id)
             /\ UNCHANGED <<scenario, tarefas, task_counter, manual_missions,
                            manual_task_counter, ml_seq, ml_estado, ml_last_seq,
                            ml_pending_mission, rovers, done_seen, confirmed>>
        ELSE /\ ml_seq <= limite_ml_seq
             /\ ml_seq' = ml_seq + 1
             /\ out' = <<Sent(ack_msg(ml_seq, header, stream_id), addr)>>
             /\ UNCHANGED <<scenario, tarefas, task_counter, manual_missions,
                            manual_task_counter, ml_pending_mission, rovers, done_seen,
                            confirmed>>
             /\ IF fora_de_contexto(stream_id, info.mission_id)
                THEN /\ last' = Branch("progress_fora_de_contexto", stream_id)
                     /\ UNCHANGED <<ml_estado, ml_last_seq>>
                ELSE /\ ml_last_seq' = ml_is_duplicate_last_seq(stream_id, header)
                     /\ IF ml_is_duplicate(stream_id, header)
                        THEN /\ last' = Branch("progress_duplicado", stream_id)
                             /\ UNCHANGED ml_estado
                        ELSE /\ last' = Branch("progress", stream_id)
                             /\ ml_estado' = [ml_estado EXCEPT ![stream_id].ultimo_progress =
                                                Some(InfoProgress(info))]

(***************************************************************************)
(* NaveMae._ml_handle_done                                                 *)
(***************************************************************************)
ml_handle_done(stream_id, header, payload, addr) ==
    LET info == parse_payload_done(payload)
    IN  IF ~info.ok
        THEN /\ out' = <<>>
             /\ last' = Branch("done_invalid", stream_id)
             /\ UNCHANGED <<scenario, tarefas, task_counter, manual_missions,
                            manual_task_counter, ml_seq, ml_estado, ml_last_seq,
                            ml_pending_mission, rovers, done_seen, confirmed>>
        ELSE /\ ml_seq <= limite_ml_seq
             /\ ml_seq' = ml_seq + 1
             /\ out' = <<Sent(ack_msg(ml_seq, header, stream_id), addr)>>
             /\ done_seen' = [done_seen EXCEPT ![stream_id] = @ \cup {<<header.seq, payload>>}]
             /\ UNCHANGED <<scenario, tarefas, task_counter, manual_missions,
                            manual_task_counter, ml_pending_mission, rovers, confirmed>>
             /\ IF fora_de_contexto(stream_id, info.mission_id)
                THEN /\ last' = Branch("done_fora_de_contexto", stream_id)
                     /\ UNCHANGED <<ml_estado, ml_last_seq>>
                ELSE /\ ml_last_seq' = ml_is_duplicate_last_seq(stream_id, header)
                     /\ IF ml_is_duplicate(stream_id, header) \/ ml_estado[stream_id].done
                        THEN /\ last' = Branch("done_duplicado", stream_id)
                             /\ UNCHANGED ml_estado
                        ELSE /\ last' = Branch("done", stream_id)
                             /\ ml_estado' = [ml_estado EXCEPT ![stream_id].done = TRUE]

(***************************************************************************)
(* NaveMae._cicloML: the TYPE_ACK branch                                   *)
(***************************************************************************)
\* "if fila_manual and pending['missao'] == fila_manual[0]"
manual_confirmada(sid, pending) ==
    LET fila_manual == Get(manual_missions, sid)
    IN  /\ fila_manual # None
        /\ fila_manual[1] # <<>>
        /\ pending.missao = Some(fila_manual[1][1])

\* fila_manual.pop(0), and the key is dropped with the last entry
consumir_manual(sid, pending) ==
    IF manual_confirmada(sid, pending)
    THEN IF Tail(manual_missions[sid]) = <<>>
         THEN Del(manual_missions, sid)
         ELSE [manual_missions EXCEPT ![sid] = Tail(@)]
    ELSE manual_missions

\* a faulty variant of avancar_tarefas that pops whatever mission the reply carried
avancar_tarefas_sem_comparar(pending) ==
    IF scenario \in {2, 4} /\ tarefas # <<>> THEN Tail(tarefas) ELSE tarefas

\* "if self.scenario in (2, 4)": pop the automatic head the reply carried
avancar_tarefas(pending) ==
    IF scenario \in {2, 4} /\ tarefas # <<>> /\ pending.missao = Some(tarefas[1])
    THEN Tail(tarefas)
    ELSE tarefas

\* "elif self.scenario == 3": the branch hangs on the scenario test alone
avancar_task_counter ==
    IF scenario \notin {2, 4} /\ scenario = 3 THEN task_counter + 1 ELSE task_counter

\* a faulty variant of ack_da_resposta that takes any ACK for the confirmation
ack_da_resposta_qualquer(pending, header) == pending.mission_seq # None

\* "if pending['mission_seq'] is not None and header.ack == pending['mission_seq']"
ack_da_resposta(pending, header) ==
    pending.mission_seq # None /\ header.ack = pending.mission_seq[1]

ml_handle_ack(sid, header) ==
    LET p == Get(ml_pending_mission, sid)
    IN  /\ out' = <<>>
        /\ UNCHANGED <<scenario, manual_task_counter, ml_seq, ml_estado, ml_last_seq,
                       rovers, done_seen>>
        /\ IF p = None
           THEN /\ last' = Branch("ack_sem_pendente", sid)
                /\ UNCHANGED <<tarefas, task_counter, manual_missions, ml_pending_mission,
                               confirmed>>
           ELSE LET pending == p[1]
                IN  IF ack_da_resposta(pending, header)
                    THEN /\ ml_pending_mission' = Del(ml_pending_mission, sid)
                         /\ manual_missions' = consumir_manual(sid, pending)
                         /\ tarefas' = avancar_tarefas(pending)
                         /\ task_counter' = avancar_task_counter
                         /\ confirmed' = [confirmed EXCEPT ![sid] = @ \cup {header.ack}]
                         /\ last' = Branch("ack_mission", sid)
                    ELSE IF pending.mission_seq = None
                    THEN /\ ml_pending_mission' = Del(ml_pending_mission, sid)
                         /\ last' = Branch("ack_nomission", sid)
                         /\ UNCHANGED <<tarefas, task_counter, manual_missions, confirmed>>
                    ELSE /\ last' = Branch("ack_outro", sid)
                         /\ UNCHANGED <<tarefas, task_counter, manual_missions,
                                        ml_pending_mission, confirmed>>

(***************************************************************************)
(* NaveMae._cicloML: one datagram taken from the socket.  r is what         *)
(* ml.parse_message(data) returns.                                         *)
(***************************************************************************)
cicloML(data, addr, r) ==
        IF ~r.ok
        THEN /\ out' = <<>>
             /\ last' = Branch("invalida", 0)
             /\ UNCHANGED <<scenario, tarefas, task_counter, manual_missions,
                            manual_task_counter, ml_seq, ml_estado, ml_last_seq,
                            ml_pending_mission, rovers, done_seen, confirmed>>
        ELSE LET sid == r.header.stream_id
                 msg_type == r.header.msg_type
             IN  IF msg_type = TYPE_READY THEN ml_handle_ready(sid, r.header, addr)
                 ELSE IF msg_type = TYPE_PROGRESS
                      THEN ml_handle_progress(sid, r.header, r.payload, addr)
                 ELSE IF msg_type = TYPE_DONE
                      THEN ml_handle_done(sid, r.header, r.payload, addr)
                 ELSE IF msg_type = TYPE_ACK THEN ml_handle_ack(sid, r.header)
                 ELSE /\ out' = <<>>
                      /\ last' = Branch("tipo_desconhecido", sid)
                      /\ UNCHANGED <<scenario, tarefas, task_counter, manual_missions,
                                     manual_task_counter, ml_seq, ml_estado, ml_last_seq,
                                     ml_pending_mission, rovers, done_seen, confirmed>>

(***************************************************************************)
(* NaveMae._ws_msg_recebida: a message of the operator.  A message that is *)
(* no JSON is the record [invalid |-> TRUE]; any other record is the dict  *)
(* json.loads returns.                                                     *)
(***************************************************************************)
ws_msg_recebida(message) ==
    /\ out' = <<>>
    /\ UNCHANGED <<scenario, tarefas, task_counter, ml_seq, ml_estado, ml_last_seq,
                   ml_pending_mission, rovers, done_seen, confirmed>>
    /\ IF "invalid" \in DOMAIN message
       THEN /\ last' = Branch("ws_json_invalido", 0)
            /\ UNCHANGED <<manual_missions, manual_task_counter>>
       ELSE IF DictGet(message, "type", "") # "assign_mission"
       THEN /\ last' = Branch("ws_tipo_desconhecido", 0)
            /\ UNCHANGED <<manual_missions, manual_task_counter>>
       ELSE IF ~({"rover_id", "mission_id", "x", "y"} \subseteq DOMAIN message)
       THEN /\ last' = Branch("ws_payload_invalido", 0)
            /\ UNCHANGED <<manual_missions, manual_task_counter>>
       ELSE LET rover_id == message.rover_id
                task_id == manual_task_counter + 1
                missao == missao_manual(message, task_id)
            IN  /\ manual_task_counter < 1000 + MaxManual
                /\ manual_task_counter' = task_id
                /\ manual_missions' =
                     Put(manual_missions, rover_id,
                         Append(DictGet(manual_missions, rover_id, <<>>), missao))
                /\ last' = Branch("ws_missao", rover_id)

(***************************************************************************)
(* The datagrams a rover builds (RoverAPI._cicloMissionLink and            *)
(* RoverAPI.send_reliable), and the messages of the operator.              *)
(***************************************************************************)
\* the rover whose PROGRESS and DONE datagrams the telemetry specification follows
TelemetryStreams == {1}

RoverSeqs == 1..MaxRoverSeq

\* flags of a first transmission and of a retransmission by send_reliable; the
\* dispatcher reads the flags of no datagram
RoverFlags == {FLAG_NEEDS_ACK, BitOr(FLAG_RETX, FLAG_NEEDS_ACK)}

\* mission ids carried by PROGRESS and DONE payloads
MsgMissionIds == {1, 4}

\* values of rover.progresso when a PROGRESS is built
Progressos == {0 - 10, 130}

rover_ready(sid, seq, flags) == build_message(TYPE_READY, seq, 0, sid, <<>>, flags)

\* a faulty variant of rover_progress_payload without the upper limit
rover_progress_payload_sem_limite(mission_id, progresso, bateria, x, y) ==
    build_payload_progress(mission_id, 0, Max(0, progresso), bateria, x, y)

\* "percent = max(0, min(100, int(self.rover.progresso)))", status 0
rover_progress_payload(mission_id, progresso, bateria, x, y) ==
    build_payload_progress(mission_id, 0, Max(0, Min(100, progresso)), bateria, x, y)

rover_progress(sid, seq, flags, mission_id, progresso) ==
    build_message(TYPE_PROGRESS, seq, 0, sid,
                  rover_progress_payload(mission_id, progresso, 90, 1, 0), flags)

\* a faulty variant of rover_done whose payload names another mission
rover_done_outra_missao(sid, seq, flags, mission_id) ==
    build_message(TYPE_DONE, seq, 0, sid, build_payload_done(mission_id + 1, 0), flags)

rover_done(sid, seq, flags, mission_id) ==
    build_message(TYPE_DONE, seq, 0, sid, build_payload_done(mission_id, 0), flags)

rover_ack(sid, seq, ack) == build_message(TYPE_ACK, seq, ack, sid, <<>>, FLAG_ACK_ONLY)

ReadyDatagrams(sids) ==
    {Sent(rover_ready(sid, seq, f), RoverAddr(sid)) :
        sid \in sids, seq \in RoverSeqs, f \in RoverFlags}

ProgressDatagrams(sids) ==
    UNION {{Sent(rover_progress(sid, seq, f, m, p), RoverAddr(sid)) :
               sid \in sids, seq \in RoverSeqs, f \in RoverFlags} :
           m \in MsgMissionIds, p \in Progressos}

\* DONE is the last message a rover numbers for a mission (_next_ml_seq): its seq is
\* above the seq of every PROGRESS of that mission
DoneDatagrams(sids) ==
    {Sent(rover_done(sid, MaxRoverSeq + 1, f, m), RoverAddr(sid)) :
        sid \in sids, f \in RoverFlags, m \in MsgMissionIds}

\* an ACK carries the ml_seq of the reply it confirms; the loop does not read its own seq
AckDatagrams(sids) ==
    {Sent(rover_ack(sid, MaxRoverSeq, ack), RoverAddr(sid)) :
        sid \in sids, ack \in 1..MaxMlSeq}

\* parse_message is a function of the datagram alone: its result is tabulated
Received(datagrams) ==
    {[data |-> m.data, addr |-> m.addr, parsed |-> parse_message(m.data)] : m \in datagrams}

(***************************************************************************)
(* The mission handshake of the fleet: the ML loop takes the READY and ACK *)
(* datagrams of every rover, in any order and any number of times, and the *)
(* operator sends messages.                                                *)
(***************************************************************************)
HandshakeReceived == Received(ReadyDatagrams(Streams) \cup AckDatagrams(Streams))

Next ==
    \/ \E m \in HandshakeReceived :
         cicloML(m.data, m.addr, m.parsed) /\ UNCHANGED fora_da_nave
    \/ \E message \in OperatorMessages : ws_msg_recebida(message) /\ UNCHANGED fora_da_nave

Spec == Init /\ [][Next]_vars

(***************************************************************************)
(* The telemetry of one rover: the ML loop takes every datagram that rover *)
(* can build, in any order and any number of times, and the operator       *)
(* assigns it missions.                                                    *)
(***************************************************************************)
TelemetryReceived ==
    Received(ReadyDatagrams(TelemetryStreams) \cup ProgressDatagrams(TelemetryStreams)
               \cup DoneDatagrams(TelemetryStreams) \cup AckDatagrams(TelemetryStreams))

NextTelemetry ==
    \/ \E m \in TelemetryReceived :
         cicloML(m.data, m.addr, m.parsed) /\ UNCHANGED fora_da_nave
    \/ \E r \in TelemetryStreams :
         ws_msg_recebida(assign_mission(r)) /\ UNCHANGED fora_da_nave

SpecTelemetry == Init /\ [][NextTelemetry]_vars

(***************************************************************************)
(* Errors at the two inputs of the mothership: the ML loop takes the READY *)
(* and ACK datagrams of one rover and datagrams that fail parse_message,   *)
(* and the operator sends well-formed and ill-formed messages.             *)
(***************************************************************************)
\* a datagram cut inside its header
datagrama_curto(data) == SubSeq(data, 1, HEADER_SIZE - 1)

\* a datagram that lost the last byte of its payload
datagrama_truncado(data) == SubSeq(data, 1, Len(data) - 1)

\* a datagram whose first payload byte changed on the way
datagrama_corrompido(data) == [data EXCEPT ![HEADER_SIZE + 1] = (@ + 1) % 256]

MalformedDatagrams(sids) ==
    UNION {{Sent(datagrama_curto(rover_ready(sid, 1, FLAG_NEEDS_ACK)), RoverAddr(sid)),
            Sent(datagrama_truncado(rover_progress(sid, 1, FLAG_NEEDS_ACK, 1, 130)),
                 RoverAddr(sid)),
            Sent(datagrama_corrompido(rover_progress(sid, 1, FLAG_NEEDS_ACK, 1, 130)),
                 RoverAddr(sid)),
            Sent(datagrama_corrompido(rover_done(sid, 1, FLAG_NEEDS_ACK, 1)),
                 RoverAddr(sid))} : sid \in sids}

MalformedReceived == Received(MalformedDatagrams(TelemetryStreams))

ErrorsReceived ==
    Received(ReadyDatagrams(TelemetryStreams) \cup AckDatagrams(TelemetryStreams))
      \cup MalformedReceived

OperatorInputs ==
    {assign_mission(r) : r \in TelemetryStreams}
      \cup {assign_mission_fora(r) : r \in TelemetryStreams}
      \cup MensagensInvalidas

NextErrors ==
    \/ \E m \in ErrorsReceived : cicloML(m.data, m.addr, m.parsed) /\ UNCHANGED fora_da_nave
    \/ \E message \in OperatorInputs : ws_msg_recebida(message) /\ UNCHANGED fora_da_nave

SpecErrors == Init /\ [][NextErrors]_vars

(***************************************************************************)
(* utils.py and Rover: one call of rover.iterar(), statement by statement. *)
(* The simulation thread and the MissionLink thread share self.rover       *)
(* without a lock, so their statements interleave.                         *)
(***************************************************************************)
estaNoDestino(pos, destino) == pos = destino

\* moverPasso for a target on the horizontal line through the position (deltaY and
\* deltaZ are 0), where distancia is |deltaX|
moverPasso(pos, destino, velocidade) ==
    LET deltaX == destino[1] - pos[1]
        distancia == IF deltaX < 0 THEN 0 - deltaX ELSE deltaX
        passoPercurso == velocidade * tick
    IN  IF distancia = 0 THEN pos
        ELSE IF passoPercurso >= distancia THEN destino
        ELSE <<pos[1] + (IF deltaX < 0 THEN 0 - passoPercurso ELSE passoPercurso),
               pos[2], pos[3]>>

\* Rover.moverRover, with variacaoVel the value random.choice([-1, 0, 1]) returned
moverRover(r, variacaoVel) ==
    [r EXCEPT !.pos = moverPasso(r.pos, r.destino, r.velocidade),
              !.velocidade = Max(0, r.velocidade + variacaoVel)]

SimPc(pc) == [sim EXCEPT !.pc = pc]

\* the call returns to _cicloEnvio, which calls iterar again after the tick; r is the
\* rover it leaves
SimReturn(r) == [SimNovo EXCEPT !.viu100 = r.progresso = 100]

iterar ==
    /\ UNCHANGED <<api, rover_out>>
    /\ CASE sim.pc = "iterar" ->
              /\ sim' = [pc |-> IF estaNoDestino(rover.pos, rover.destino)
                                THEN "pos" ELSE "moverRover",
                         ateAgora |-> 0, viu100 |-> sim.viu100]
              /\ UNCHANGED rover
         [] sim.pc = "moverRover" ->
              \E variacaoVel \in {0 - 1, 0, 1} :
                  /\ rover.velocidade + variacaoVel <= MaxVel
                  /\ rover' = moverRover(rover, variacaoVel)
                  /\ sim' = SimPc("state_2")
         [] sim.pc = "state_2" ->
              /\ rover' = [rover EXCEPT !.state = 2]
              /\ sim' = SimReturn(rover')
         [] sim.pc = "pos" ->
              /\ rover' = [rover EXCEPT !.pos = rover.destino]
              /\ sim' = SimPc("if_progresso")
         [] sim.pc = "if_progresso" ->
              /\ sim' = SimPc(IF rover.progresso = 100 THEN "fim_progresso" ELSE "if_missao")
              /\ UNCHANGED rover
         [] sim.pc = "fim_progresso" ->
              /\ rover' = [rover EXCEPT !.progresso = 0]
              /\ sim' = SimPc("fim_missao")
         [] sim.pc = "fim_missao" ->
              /\ rover' = [rover EXCEPT !.missao = 0]
              /\ sim' = SimPc("fim_state")
         [] sim.pc = "fim_state" ->
              /\ rover' = [rover EXCEPT !.state = 0]
              /\ sim' = SimPc("fim_working")
         [] sim.pc = "fim_working" ->
              /\ rover' = [rover EXCEPT !.working = 0]
              /\ sim' = SimPc("if_missao")
         [] sim.pc = "if_missao" ->
              /\ sim' = IF rover.missao # 0 THEN SimPc("work_state") ELSE SimReturn(rover)
              /\ UNCHANGED rover
         [] sim.pc = "work_state" ->
              /\ rover' = [rover EXCEPT !.state = 1]
              /\ sim' = SimPc("work_working")
         [] sim.pc = "work_working" ->
              /\ rover.working < MaxWorking
              /\ rover' = [rover EXCEPT !.working = @ + 1]
              /\ sim' = SimPc("work_ateAgora")
         [] sim.pc = "work_ateAgora" ->
              /\ sim' = [sim EXCEPT !.pc = "work_progresso",
                                    !.ateAgora = (rover.working * 100) \div rover.duracao]
              /\ UNCHANGED rover
         [] sim.pc = "work_progresso" ->
              /\ rover' = [rover EXCEPT !.progresso = Min(100, sim.ateAgora)]
              /\ sim' = SimReturn(rover')

(***************************************************************************)
(* RoverAPI._cicloMissionLink and RoverAPI.send_reliable, statement by     *)
(* statement where they touch self.rover.  What the mothership sends back  *)
(* is an input: a reply it can build, or nothing (a timeout).              *)
(***************************************************************************)
\* sequence numbers the mothership's replies carry
NaveSeqs == {1, 2}

NaveAddr == <<"nave", 50000>>

\* the MISSION and NOMISSION replies of _ml_handle_ready
nave_mission(seq, ack, missao) ==
    build_message(TYPE_MISSION, seq, ack, ml_stream_id,
                  build_payload_mission(missao[1], missao[2], missao[3], missao[4],
                                        missao[5], missao[6]), FLAG_NEEDS_ACK)

nave_nomission(seq, ack) ==
    build_message(TYPE_NOMISSION, seq, ack, ml_stream_id, <<>>, FLAG_NEEDS_ACK)

\* the datagrams that may arrive while the rover waits for the reply to its READY: a
\* MISSION, a NOMISSION, an ACK (an unexpected type) and a datagram cut short
Respostas(seq_ready) ==
    {nave_mission(k, seq_ready, m) : k \in NaveSeqs, m \in NaveMissoes}
      \cup {nave_nomission(k, seq_ready) : k \in NaveSeqs}
      \cup {ack_msg(1, [seq |-> seq_ready], ml_stream_id),
            datagrama_curto(nave_nomission(1, seq_ready))}

\* the datagrams that may arrive while send_reliable waits: the ACK of seq, the ACK of
\* the message before it, and a datagram cut short
Acks(seq) ==
    {ack_msg(k, [seq |-> a], ml_stream_id) : k \in NaveSeqs, a \in {seq, seq - 1}}
      \cup {datagrama_curto(nave_nomission(1, seq))}

\* hist after the rover sent a datagram of this type and seq
Registar(msg_type, seq) ==
    IF api.feliz /\ api.feitas = 0 THEN Append(api.hist, <<msg_type, seq>>) ELSE api.hist

\* the thread after a timeout or an unexpected datagram, at position pc
Perda(a, pc) ==
    [a EXCEPT !.pc = pc,
              !.feliz = IF a.feitas = 0 THEN FALSE ELSE @,
              !.hist = IF a.feitas = 0 THEN <<>> ELSE @]

ApiPc(pc) == [api EXCEPT !.pc = pc]

\* the positions of the thread inside send_reliable
SendReliablePcs == {"send_reliable", "recvfrom"}

\* steps 2 to 4 of the loop for the datagram data that recvfrom returned
recebe_resposta(data) ==
    LET r == parse_message(data)
    IN  IF ~r.ok
        THEN /\ api' = [Perda(api, "ready") EXCEPT !.loc = ApiLocals]
             /\ rover_out' = <<>>
        ELSE IF r.header.msg_type = TYPE_NOMISSION
        THEN /\ api.ml_seq <= limite_rover_ml_seq
             /\ rover_out' = <<Sent(rover_ack(ml_stream_id, api.ml_seq, r.header.seq), NaveAddr)>>
             /\ api' = [Perda(api, "ready") EXCEPT !.ml_seq = @ + 1, !.loc = ApiLocals]
        ELSE IF r.header.msg_type = TYPE_MISSION
        THEN LET miss == parse_payload_mission(r.payload)
             IN  /\ rover_out' = <<>>
                 /\ api' = IF ~miss.ok
                           THEN [Perda(api, "ready") EXCEPT !.loc = ApiLocals]
                           ELSE [api EXCEPT !.pc = "destino",
                                            !.loc.mission_id = miss.mission_id,
                                            !.loc.x = miss.x,
                                            !.loc.y = miss.y,
                                            !.loc.radius = miss.radius,
                                            !.loc.duracao = miss.duracao,
                                            !.loc.nave_seq = r.header.seq]
        ELSE /\ api' = [Perda(api, "ready") EXCEPT !.loc = ApiLocals]
             /\ rover_out' = <<>>

\* socket.timeout while the thread waits for the reply to its READY
timeout_resposta ==
    /\ api' = [Perda(api, "ready") EXCEPT !.loc = ApiLocals]
    /\ rover_out' = <<>>

\* "dist <= radius" for dist = (dx * dx + dy * dy) ** 0.5
Perto(pos, x, y, radius) ==
    (pos[1] - x) * (pos[1] - x) + (pos[2] - y) * (pos[2] - y) <= radius * radius

cicloMissionLink ==
    /\ api.pc \notin SendReliablePcs
    /\ UNCHANGED sim
    /\ CASE api.pc = "ready" ->
              /\ api.ml_seq <= limite_rover_ml_seq
              /\ rover_out' =
                   <<Sent(rover_ready(ml_stream_id, api.ml_seq, FLAG_NEEDS_ACK), NaveAddr)>>
              /\ api' = [api EXCEPT !.pc = "recv_reply",
                                    !.ml_seq = @ + 1,
                                    !.loc.seq = api.ml_seq,
                                    !.falhou = FALSE,
                                    !.hist = Registar(TYPE_READY, api.ml_seq)]
              /\ UNCHANGED rover
         [] api.pc = "recv_reply" ->
              /\ UNCHANGED rover
              /\ \/ timeout_resposta
                 \/ \E data \in Respostas(api.loc.seq) : recebe_resposta(data)
         [] api.pc = "destino" ->
              /\ rover' = [rover EXCEPT !.destino = <<api.loc.x, api.loc.y, rover.pos[3]>>]
              /\ api' = ApiPc("missao")
              /\ rover_out' = <<>>
         [] api.pc = "missao" ->
              /\ rover' = [rover EXCEPT !.missao = api.loc.mission_id]
              /\ api' = ApiPc("working")
              /\ rover_out' = <<>>
         [] api.pc = "working" ->
              /\ rover' = [rover EXCEPT !.working = 0]
              /\ api' = ApiPc("duracao")
              /\ rover_out' = <<>>
         [] api.pc = "duracao" ->
              /\ rover' = [rover EXCEPT !.duracao = api.loc.duracao]
              /\ api' = ApiPc("progresso")
              /\ rover_out' = <<>>
         [] api.pc = "progresso" ->
              /\ rover' = [rover EXCEPT !.progresso = 0]
              /\ api' = ApiPc("state")
              /\ rover_out' = <<>>
         [] api.pc = "state" ->
              /\ rover' = [rover EXCEPT !.state = 1]
              /\ api' = ApiPc("ack_mission")
              /\ rover_out' = <<>>
         [] api.pc = "ack_mission" ->
              /\ api.ml_seq <= limite_rover_ml_seq
              /\ rover_out' = <<Sent(rover_ack(ml_stream_id, api.ml_seq, api.loc.nave_seq),
                                     NaveAddr)>>
              /\ api' = [api EXCEPT !.pc = "if_missao",
                                    !.ml_seq = @ + 1,
                                    !.loc.nave_seq = 0,
                                    !.hist = Registar(TYPE_ACK, api.ml_seq)]
              /\ UNCHANGED rover
         [] api.pc = "if_missao" ->
              /\ api' = ApiPc(IF rover.missao # api.loc.mission_id
                              THEN "done" ELSE "percent")
              /\ rover_out' = <<>>
              /\ UNCHANGED rover
         [] api.pc = "percent" ->
              /\ api' = [api EXCEPT !.pc = "dist",
                                    !.loc.percent = Max(0, Min(100, rover.progresso))]
              /\ rover_out' = <<>>
              /\ UNCHANGED rover
         [] api.pc = "dist" ->
              /\ api' = [api EXCEPT !.pc = "progress",
                                    !.loc.perto = Perto(rover.pos, api.loc.x, api.loc.y,
                                                        api.loc.radius)]
              /\ rover_out' = <<>>
              /\ UNCHANGED rover
         [] api.pc = "progress" ->
              /\ api.ml_seq <= limite_rover_ml_seq
              /\ api' = [api EXCEPT
                           !.pc = "send_reliable",
                           !.ml_seq = @ + 1,
                           !.loc.seq = api.ml_seq,
                           !.loc.retries = 0,
                           !.loc.caller = "progress",
                           !.loc.msg =
                              build_message(TYPE_PROGRESS, api.ml_seq, 0, ml_stream_id,
                                            build_payload_progress(api.loc.mission_id, 0,
                                                api.loc.percent, 100, rover.pos[1],
                                                rover.pos[2]),
                                            FLAG_NEEDS_ACK)]
              /\ rover_out' = <<>>
              /\ UNCHANGED rover
         [] api.pc = "fim_ciclo" ->
              /\ api' = ApiPc(IF api.loc.perto \/ api.loc.percent >= 100
                              THEN "done" ELSE "if_missao")
              /\ rover_out' = <<>>
              /\ UNCHANGED rover
         [] api.pc = "done" ->
              /\ api.ml_seq <= limite_rover_ml_seq
              /\ api' = [api EXCEPT
                           !.pc = "send_reliable",
                           !.ml_seq = @ + 1,
                           !.loc.seq = api.ml_seq,
                           !.loc.retries = 0,
                           !.loc.caller = "done",
                           !.loc.msg = rover_done(ml_stream_id, api.ml_seq, FLAG_NEEDS_ACK,
                                                  api.loc.mission_id)]
              /\ rover_out' = <<>>
              /\ UNCHANGED rover
         [] api.pc = "limpar_state" ->
              /\ rover' = [rover EXCEPT !.state = 0]
              /\ api' = ApiPc("resetar_missao")
              /\ rover_out' = <<>>
         [] api.pc = "resetar_missao" ->
              /\ rover' = [rover EXCEPT !.missao = 0]
              /\ api' = ApiPc("resetar_progresso")
              /\ rover_out' = <<>>
         [] api.pc = "resetar_progresso" ->
              /\ rover' = [rover EXCEPT !.progresso = 0]
              /\ api' = ApiPc("resetar_state")
              /\ rover_out' = <<>>
         [] api.pc = "resetar_state" ->
              /\ rover' = [rover EXCEPT !.state = 0]
              /\ api' = [api EXCEPT !.pc = "ready", !.loc = ApiLocals,
                                    !.feitas = Min(2, @ + 1)]
              /\ rover_out' = <<>>

\* the thread when send_reliable returns ok to _cicloMissionLink; the locals of
\* send_reliable are gone
Retorno(ok) ==
    [api EXCEPT !.pc = IF api.loc.caller = "progress"
                       THEN (IF ok THEN "fim_ciclo" ELSE "done")
                       ELSE "limpar_state",
                !.loc.retries = 0,
                !.loc.msg = <<>>,
                !.falhou = @ \/ (~ok /\ api.loc.caller = "progress")]

\* a faulty variant of retransmissao that resends the flags as they were
retransmissao_sem_retx(msg_bytes, seq) ==
    LET r == parse_message(msg_bytes)
    IN  build_message(r.header.msg_type, seq, r.header.ack, r.header.stream_id, r.payload,
                      r.header.flags)

\* the message send_reliable builds after a timeout: the same seq, FLAG_RETX set
retransmissao(msg_bytes, seq) ==
    LET r == parse_message(msg_bytes)
    IN  build_message(r.header.msg_type, seq, r.header.ack, r.header.stream_id, r.payload,
                      BitOr(FLAG_RETX, BitAnd(r.header.flags, 255 - FLAG_RETX)))

\* socket.timeout inside send_reliable: "retries += 1" and the RETX message
timeout_ack ==
    /\ rover_out' = <<>>
    /\ api' = [Perda(api, "send_reliable") EXCEPT
                 !.loc.retries = @ + 1,
                 !.loc.msg = retransmissao(api.loc.msg, api.loc.seq)]

\* the datagram data that recvfrom returned inside send_reliable
recebe_ack(data) ==
    LET r == parse_message(data)
    IN  /\ rover_out' = <<>>
        /\ api' = IF r.ok /\ r.header.msg_type = TYPE_ACK /\ r.header.ack = api.loc.seq
                  THEN Retorno(TRUE)
                  ELSE Perda(api, "send_reliable")

send_reliable ==
    /\ api.pc \in SendReliablePcs
    /\ UNCHANGED <<rover, sim>>
    /\ CASE api.pc = "send_reliable" ->
              IF api.loc.retries <= max_retries
              THEN /\ rover_out' = <<Sent(api.loc.msg, NaveAddr)>>
                   /\ api' = [api EXCEPT
                                !.pc = "recvfrom",
                                !.hist = Registar(parse_message(api.loc.msg).header.msg_type,
                                                  api.loc.seq)]
              ELSE /\ rover_out' = <<>>
                   /\ api' = Retorno(FALSE)
         [] api.pc = "recvfrom" ->
              \/ timeout_ack
              \/ \E data \in Acks(api.loc.seq) : recebe_ack(data)

NextRover ==
    \/ iterar /\ UNCHANGED fora_do_rover
    \/ cicloMissionLink /\ UNCHANGED fora_do_rover
    \/ send_reliable /\ UNCHANGED fora_do_rover

\* the rover process next to a mothership that runs scenario 3
InitRover == Init /\ scenario = 3

SpecRover == InitRover /\ [][NextRover]_vars

(***************************************************************************)
(* The MissionLink thread of the rover alone, with the calls of            *)
(* ml_sock.sendto counted: link.envios is history, the transmissions the   *)
(* call of send_reliable that runs, or that returned last, has made.       *)
(***************************************************************************)
\* the count stops one above the number the loop makes when it only times out
limite_envios == max_retries + 2

contar_envios ==
    link' = [link EXCEPT
               !.envios = IF api.pc \notin SendReliablePcs /\ api'.pc = "send_reliable"
                          THEN 0
                          ELSE IF api.pc = "send_reliable" /\ rover_out' # <<>>
                          THEN Min(limite_envios, @ + 1)
                          ELSE @]

fora_dos_envios == <<nave_vars, codec, ws, ciclo, sender, cliente, passo>>

NextEnvios ==
    \/ cicloMissionLink /\ contar_envios /\ UNCHANGED fora_dos_envios
    \/ send_reliable /\ contar_envios /\ UNCHANGED fora_dos_envios

SpecEnvios == InitRover /\ [][NextEnvios]_vars

(***************************************************************************)
(* missionlink.py as a library: one call of build_message on arguments     *)
(* within the ranges of the header fields, then parse_message on its       *)
(* result.  Integers of the model end at 2^31 - 1, so seq and ack are      *)
(* taken from the lower half of the uint32 range.                          *)
(***************************************************************************)
MLMsgTypes == {TYPE_READY, TYPE_MISSION, TYPE_REQUESTMISSION, 255}

MLFlags == {0, FLAG_NEEDS_ACK + FLAG_RETX, 255}

MLSeqs == {0, 1, 65536, 2147483647}

MLAcks == {0, 2147483647}

MLStreams == {0, 1, 65535}

MLPayloads ==
    {<<>>, <<0>>, <<255, 1>>, build_payload_done(1, 0), build_payload_mission(1, 1, 3, 0, 2, 2)}

MLArgs ==
    [fase : {"args"}, msg_type : MLMsgTypes, flags : MLFlags, seq : MLSeqs, ack : MLAcks,
     stream_id : MLStreams, payload : MLPayloads]

InitML == Programa /\ scenario = 3 /\ codec \in MLArgs /\ link = SemLink

chama_build_message ==
    /\ codec.fase = "args"
    /\ codec' = [fase |-> "built", args |-> codec,
                 data |-> build_message(codec.msg_type, codec.seq, codec.ack,
                                        codec.stream_id, codec.payload, codec.flags)]

chama_parse_message ==
    /\ codec.fase = "built"
    /\ codec' = [fase |-> "parsed", args |-> codec.args, data |-> codec.data,
                 ret |-> parse_message(codec.data)]

NextML ==
    \/ chama_build_message /\ UNCHANGED <<nave_vars, rover_vars, thread_vars>>
    \/ chama_parse_message /\ UNCHANGED <<nave_vars, rover_vars, thread_vars>>

SpecML == InitML /\ [][NextML]_vars

(***************************************************************************)
(* ts.py as a library: one call of codificarFrame, then decodificarFrame   *)
(* on the header and the payload it produced.  A number of the rover is    *)
(* held as its double: 7 stands for 3.5, so that int() has work to do.     *)
(***************************************************************************)
TYPE_HELLO == 0
TYPE_INFO == 2
TYPE_END == 3
TYPE_FIN == 4

\* struct.calcsize(">BBBBBBBIIB")
TS_HEADER_SIZE == 16

PAYLOAD_SIZE == 9

\* int(valor): truncation towards zero
int(valor) == IF valor >= 0 THEN valor \div 2 ELSE 0 - ((0 - valor) \div 2)

\* a faulty variant of limitarByte that wraps around instead of saturating
limitarByte_modulo(valor) == int(valor) % 256

limitarByte(valor) == Max(0, Min(255, int(valor)))

\* Payload(...) of criarPayloadDoRover, in the order struct.pack writes it
criarPayloadDoRover(r) ==
    [proc_use |-> limitarByte(r.proc_use), storage |-> limitarByte(r.storage),
     velocidade |-> limitarByte(r.velocidade), direcao |-> limitarByte(r.direcao),
     sensores |-> limitarByte(r.sensores), progresso |-> limitarByte(r.progresso),
     x |-> limitarByte(r.destino[1]), y |-> limitarByte(r.destino[2]),
     z |-> limitarByte(r.destino[3])]

\* zlib.crc32(payload_bytes) & 0xFFFFFFFF as <<high 16 bits, low 16 bits>>
ts_checksum(payload_bytes) == crc32(payload_bytes)

codificarFrame(tipo, r, freq) ==
    LET payload_obj == criarPayloadDoRover(r)
        payload_bytes ==
            <<payload_obj.proc_use, payload_obj.storage, payload_obj.velocidade,
              payload_obj.direcao, payload_obj.sensores, payload_obj.progresso,
              payload_obj.x, payload_obj.y, payload_obj.z>>
        checksum == ts_checksum(payload_bytes)
        header_bytes ==
            <<limitarByte(tipo), limitarByte(r.id), limitarByte(r.bateria),
              limitarByte(r.pos_x), limitarByte(r.pos_y), limitarByte(r.pos_z),
              limitarByte(r.state)>>
              \o PackU16(checksum[1]) \o PackU16(checksum[2])
              \o PackU32(Len(payload_bytes)) \o <<limitarByte(freq)>>
    IN  header_bytes \o payload_bytes

\* A raised ValueError is [ok |-> FALSE]; otherwise the Header.
lerHeader(buf) ==
    IF Len(buf) # TS_HEADER_SIZE THEN [ok |-> FALSE]
    ELSE [ok |-> TRUE,
          header |-> [tipo |-> buf[1], id_rover |-> buf[2], bateria |-> buf[3],
                      pos_x |-> buf[4], pos_y |-> buf[5], pos_z |-> buf[6],
                      state |-> buf[7],
                      checksum |-> <<UnpackU16(SubSeq(buf, 8, 9)),
                                     UnpackU16(SubSeq(buf, 10, 11))>>,
                      payload_len |-> UnpackU32(SubSeq(buf, 12, 15)),
                      freq |-> buf[16]]]

lerPayload(buf) ==
    IF Len(buf) < PAYLOAD_SIZE THEN [ok |-> FALSE]
    ELSE [ok |-> TRUE,
          payload |-> [proc_use |-> buf[1], storage |-> buf[2], velocidade |-> buf[3],
                       direcao |-> buf[4], sensores |-> buf[5], progresso |-> buf[6],
                       x |-> buf[7], y |-> buf[8], z |-> buf[9]]]

decodificarFrame(header_bytes, payload_bytes) ==
    LET hdr == lerHeader(header_bytes)
    IN  IF ~hdr.ok THEN [ok |-> FALSE]
        ELSE IF hdr.header.payload_len # Len(payload_bytes) THEN [ok |-> FALSE]
        ELSE IF ts_checksum(payload_bytes) # hdr.header.checksum THEN [ok |-> FALSE]
        ELSE LET payload == lerPayload(payload_bytes)
             IN  IF ~payload.ok THEN [ok |-> FALSE]
                 ELSE [ok |-> TRUE, header |-> hdr.header, payload |-> payload.payload]

\* a rover at rest, every number doubled
TSRover ==
    [id |-> 2, bateria |-> 200, pos_x |-> 0, pos_y |-> 0, pos_z |-> 0, state |-> 0,
     proc_use |-> 0, storage |-> 0, velocidade |-> 0, direcao |-> 0, sensores |-> 0,
     progresso |-> 0, destino |-> <<0, 0, 0>>]

\* doubled values around the two ends of the byte range: -1.5, 0, 0.5, 3.5, 255, 255.5, 300
TSValores == {0 - 3, 0, 1, 7, 510, 511, 600}

\* the rover at rest with one of its numbers replaced
TSRovers ==
    {[TSRover EXCEPT ![f] = v] :
        f \in {"id", "bateria", "pos_x", "pos_y", "pos_z", "state", "proc_use", "storage",
               "velocidade", "direcao", "sensores", "progresso"},
        v \in TSValores}
      \cup {[TSRover EXCEPT !.destino[i] = v] : i \in 1..3, v \in TSValores}

TSArgs ==
    [fase : {"args"}, tipo : {2 * TYPE_HELLO, 2 * TYPE_INFO, 2 * TYPE_FIN, 600},
     rover : TSRovers, freq : {0, 2, 600}]

InitTS == Programa /\ scenario = 3 /\ codec \in TSArgs /\ link = SemLink

chama_codificarFrame ==
    /\ codec.fase = "args"
    /\ codec' = [fase |-> "encoded", args |-> codec,
                 data |-> codificarFrame(codec.tipo, codec.rover, codec.freq)]

\* the reader takes TS_HEADER_SIZE bytes, then the rest as the payload
chama_decodificarFrame ==
    /\ codec.fase = "encoded"
    /\ codec' = [fase |-> "decoded", args |-> codec.args, data |-> codec.data,
                 ret |-> decodificarFrame(SubSeq(codec.data, 1, TS_HEADER_SIZE),
                                          SubSeq(codec.data, TS_HEADER_SIZE + 1,
                                                 Len(codec.data)))]

NextTS ==
    \/ chama_codificarFrame /\ UNCHANGED <<nave_vars, rover_vars, thread_vars>>
    \/ chama_decodificarFrame /\ UNCHANGED <<nave_vars, rover_vars, thread_vars>>

SpecTS == InitTS /\ [][NextTS]_vars

(***************************************************************************)
(* The operator's handler and the ML loop as two threads.  The websocket   *)
(* server calls _ws_msg_recebida on its own thread and _cicloML runs on    *)
(* ml_thread; no lock is taken, so a thread can be suspended between two   *)
(* statements, and between the two calls of                                *)
(* manual_missions.setdefault(rover_id, []).append(missao).                *)
(***************************************************************************)
\* json.loads, the field conversions and "self.manual_task_counter += 1"
ws_recv(message) ==
    LET task_id == manual_task_counter + 1
    IN  /\ ws.pc = "recv"
        /\ manual_task_counter < 1000 + MaxManualWs
        /\ manual_task_counter' = task_id
        /\ ws' = [ws EXCEPT !.pc = "setdefault", !.rover_id = message.rover_id,
                            !.missao = missao_manual(message, task_id)]
        /\ UNCHANGED <<scenario, tarefas, task_counter, manual_missions, ml_seq, ml_estado,
                       ml_last_seq, ml_pending_mission, rovers, out, last, done_seen,
                       confirmed, ciclo>>

\* self.manual_missions.setdefault(rover_id, []): the list of the dict, put there if
\* the key was missing.  ws.lista says whether the list the thread holds is still
\* the one in the dict.
ws_setdefault ==
    /\ ws.pc = "setdefault"
    /\ manual_missions' =
         IF Get(manual_missions, ws.rover_id) = None
         THEN Put(manual_missions, ws.rover_id, <<>>)
         ELSE manual_missions
    /\ ws' = [ws EXCEPT !.pc = "append", !.lista = "dict"]
    /\ UNCHANGED <<scenario, tarefas, task_counter, manual_task_counter, ml_seq, ml_estado,
                   ml_last_seq, ml_pending_mission, rovers, out, last, done_seen,
                   confirmed, ciclo>>

\* .append(missao) on the list setdefault returned, and the return of the handler
ws_append ==
    /\ ws.pc = "append"
    /\ manual_missions' =
         IF ws.lista = "dict"
         THEN [manual_missions EXCEPT ![ws.rover_id] = Append(@, ws.missao)]
         ELSE manual_missions
    /\ ws' = [WsNovo EXCEPT !.feitas = ws.feitas \cup {<<ws.rover_id, ws.missao>>}]
    /\ UNCHANGED <<scenario, tarefas, task_counter, manual_task_counter, ml_seq, ml_estado,
                   ml_last_seq, ml_pending_mission, rovers, out, last, done_seen,
                   confirmed, ciclo>>

\* "pending['mission_seq'] is not None and header.ack == pending['mission_seq']"
ack_confirma(r) ==
    LET p == Get(ml_pending_mission, r.header.stream_id)
    IN  /\ r.ok
        /\ r.header.msg_type = TYPE_ACK
        /\ p # None
        /\ p[1].mission_seq # None
        /\ r.header.ack = p[1].mission_seq[1]

\* a datagram whose handling reads no manual queue after another statement: one step
ciclo_datagrama(data, addr, r) ==
    /\ ciclo.pc = "recvfrom"
    /\ ~ack_confirma(r)
    /\ cicloML(data, addr, r)
    /\ UNCHANGED <<ws, ciclo>>

\* the matching ACK: self.ml_pending_mission.pop(sid, None)
ciclo_ack(data, addr, r) ==
    LET sid == r.header.stream_id
    IN  /\ ciclo.pc = "recvfrom"
        /\ ack_confirma(r)
        /\ ml_pending_mission' = Del(ml_pending_mission, sid)
        /\ confirmed' = [confirmed EXCEPT ![sid] = @ \cup {r.header.ack}]
        /\ out' = <<>>
        /\ last' = Branch("ack_mission", sid)
        /\ ciclo' = [ciclo EXCEPT !.pc = "get", !.sid = sid,
                                  !.pending = ml_pending_mission[sid]]
        /\ UNCHANGED <<scenario, tarefas, task_counter, manual_missions,
                       manual_task_counter, ml_seq, ml_estado, ml_last_seq, rovers,
                       done_seen, ws>>

\* the statements of the branch that follow, one at a time.  fila_manual is the list
\* of the dict, or None: the other thread removes no key.
ciclo_fila_manual ==
    LET sid == ciclo.sid
        fila_manual == Get(manual_missions, sid)
    IN  /\ ciclo.pc \in {"get", "if_fila", "pop", "if_not_fila", "remove"}
        /\ UNCHANGED <<scenario, tarefas, task_counter, manual_task_counter, ml_seq,
                       ml_estado, ml_last_seq, ml_pending_mission, rovers, out, last,
                       done_seen, confirmed>>
        /\ CASE ciclo.pc = "get" ->
                  \* fila_manual = self.manual_missions.get(sid)
                  /\ ciclo' = [ciclo EXCEPT !.pc = IF fila_manual = None THEN "cenario"
                                                   ELSE "if_fila"]
                  /\ UNCHANGED <<manual_missions, ws>>
             [] ciclo.pc = "if_fila" ->
                  \* if fila_manual and pending["missao"] == fila_manual[0]
                  /\ ciclo' = [ciclo EXCEPT !.pc = IF manual_confirmada(sid, ciclo.pending)
                                                   THEN "pop" ELSE "cenario"]
                  /\ UNCHANGED <<manual_missions, ws>>
             [] ciclo.pc = "pop" ->
                  \* fila_manual.pop(0)
                  /\ manual_missions' = [manual_missions EXCEPT ![sid] = Tail(@)]
                  /\ ciclo' = [ciclo EXCEPT !.pc = "if_not_fila",
                                 !.consumidas = @ \cup {<<sid, manual_missions[sid][1]>>}]
                  /\ UNCHANGED ws
             [] ciclo.pc = "if_not_fila" ->
                  \* if not fila_manual
                  /\ ciclo' = [ciclo EXCEPT !.pc = IF manual_missions[sid] = <<>>
                                                   THEN "remove" ELSE "cenario"]
                  /\ UNCHANGED <<manual_missions, ws>>
             [] ciclo.pc = "remove" ->
                  \* self.manual_missions.pop(sid, None): a handler that holds the list
                  \* keeps it, and it is no longer the list of the dict
                  /\ manual_missions' = Del(manual_missions, sid)
                  /\ ws' = IF ws.pc = "append" /\ ws.rover_id = sid
                           THEN [ws EXCEPT !.lista = "fora"] ELSE ws
                  /\ ciclo' = [ciclo EXCEPT !.pc = "cenario"]

\* "if self.scenario in (2, 4): ... elif self.scenario == 3: ...", and back to recvfrom
ciclo_cenario ==
    /\ ciclo.pc = "cenario"
    /\ tarefas' = avancar_tarefas(ciclo.pending)
    /\ task_counter' = avancar_task_counter
    /\ ciclo' = [CicloNovo EXCEPT !.consumidas = ciclo.consumidas]
    /\ UNCHANGED <<scenario, manual_missions, manual_task_counter, ml_seq, ml_estado,
                   ml_last_seq, ml_pending_mission, rovers, out, last, done_seen,
                   confirmed, ws>>

\* what a step of these two threads leaves alone
fora_dos_dois == <<rover_vars, codec, sender, cliente, link, passo>>

NextManual ==
    \/ \E m \in ErrorsReceived :
         ciclo_datagrama(m.data, m.addr, m.parsed) /\ UNCHANGED fora_dos_dois
    \/ \E m \in ErrorsReceived : ciclo_ack(m.data, m.addr, m.parsed) /\ UNCHANGED fora_dos_dois
    \/ ciclo_fila_manual /\ UNCHANGED fora_dos_dois
    \/ ciclo_cenario /\ UNCHANGED fora_dos_dois
    \/ \E r \in TelemetryStreams : ws_recv(assign_mission(r)) /\ UNCHANGED fora_dos_dois
    \/ ws_setdefault /\ UNCHANGED fora_dos_dois
    \/ ws_append /\ UNCHANGED fora_dos_dois

SpecManual == Init /\ [][NextManual]_vars

(***************************************************************************)
(* The snapshot sender, a client thread and the ML loop.  _ws_loop_envio    *)
(* runs on t_sender, _cicloCliente on one thread for each TCP connection    *)
(* and _cicloML on ml_thread; they share self.rovers and take no lock, so   *)
(* a thread can be suspended between two statements.                       *)
(***************************************************************************)
\* values of hdr.state and pl.progresso in the INFO frames of the rover
InfoEstados == {0, 1}

InfoProgressos == {0, 50}

\* the mirror rover an INFO frame of rover 1 updates: realIndex = hdr.id_rover - 1,
\* counted from 1
realIndex == 1

\* "ficheiro = [r.to_dict() for r in self.rovers if r.dirty]", one rover at a time,
\* and "if not ficheiro: return"
enviar_to_dict ==
    LET i == sender.i
        ficheiro == IF rovers[i].dirty THEN Append(sender.ficheiro, to_dict(rovers[i]))
                    ELSE sender.ficheiro
    IN  /\ sender.pc = "to_dict"
        /\ sender' = IF i < nRovers THEN [sender EXCEPT !.i = i + 1, !.ficheiro = ficheiro]
                     ELSE IF ficheiro = <<>> THEN SenderNovo
                     ELSE [pc |-> "limpa", i |-> 1, ficheiro |-> ficheiro]
        /\ UNCHANGED rovers

\* "for r in self.rovers: r.dirty = False", one rover at a time
enviar_limpa ==
    LET i == sender.i
    IN  /\ sender.pc = "limpa"
        /\ rovers' = [rovers EXCEPT ![i].dirty = FALSE]
        /\ sender' = IF i < nRovers THEN [sender EXCEPT !.i = i + 1]
                     ELSE [sender EXCEPT !.pc = "send_message", !.i = 1]

\* self.ws_server.send_message(self.ws_client, msg), and the sleep of _ws_loop_envio
enviar_send_message ==
    /\ sender.pc = "send_message"
    /\ sender' = SenderNovo
    /\ UNCHANGED rovers

\* _cicloCliente takes an INFO frame of the rover and _imprimir calls updateInfo
cliente_recv(estado, pro) ==
    /\ cliente.pc = "recv"
    /\ cliente' = [pc |-> "if_state", estado |-> estado,
                    missao |-> rovers[realIndex].missao, pro |-> pro, fim |-> cliente.fim]
    /\ UNCHANGED rovers

\* Rover.updateInfo: the tests of state, missao and progresso, the assignments and the
\* assignments of dirty that follow them.  missao is the argument of the call, which
\* _imprimir read from the mirror rover when it made the call
updateInfo ==
    LET r == rovers[realIndex]
    IN  CASE cliente.pc = "if_state" ->
               IF r.state # cliente.estado
               THEN /\ rovers' = [rovers EXCEPT ![realIndex].state = cliente.estado]
                    /\ cliente' = [cliente EXCEPT !.pc = "state_dirty"]
               ELSE /\ cliente' = [cliente EXCEPT !.pc = "if_missao"]
                    /\ UNCHANGED rovers
          [] cliente.pc = "state_dirty" ->
               /\ rovers' = [rovers EXCEPT ![realIndex].dirty = TRUE]
               /\ cliente' = [cliente EXCEPT !.pc = "if_missao"]
          [] cliente.pc = "if_missao" ->
               IF r.missao # cliente.missao
               THEN /\ rovers' = [rovers EXCEPT ![realIndex].missao = cliente.missao]
                    /\ cliente' = [cliente EXCEPT !.pc = "missao_dirty"]
               ELSE /\ cliente' = [cliente EXCEPT !.pc = "if_progresso"]
                    /\ UNCHANGED rovers
          [] cliente.pc = "missao_dirty" ->
               /\ rovers' = [rovers EXCEPT ![realIndex].dirty = TRUE]
               /\ cliente' = [cliente EXCEPT !.pc = "if_progresso"]
          [] cliente.pc = "if_progresso" ->
               IF r.progresso # cliente.pro
               THEN /\ rovers' = [rovers EXCEPT ![realIndex].progresso = cliente.pro]
                    /\ cliente' = [cliente EXCEPT !.pc = "progresso_dirty"]
               ELSE /\ cliente' = ClienteEspera
                    /\ UNCHANGED rovers
          [] cliente.pc = "progresso_dirty" ->
               /\ rovers' = [rovers EXCEPT ![realIndex].dirty = TRUE]
               /\ cliente' = ClienteEspera

\* the datagrams of the rover the ML loop takes meanwhile: its READY assigns the
\* mirror rover a mission (atribiuMission), its ACK lets the next READY assign another
SweepReceived ==
    Received(ReadyDatagrams(TelemetryStreams) \cup AckDatagrams(TelemetryStreams))

\* the nave variables a step of the sender or of the client leaves alone
fora_dos_rovers ==
    <<scenario, tarefas, task_counter, manual_missions, manual_task_counter, ml_seq,
      ml_estado, ml_last_seq, ml_pending_mission, out, last, done_seen, confirmed>>

NextSweep ==
    \/ enviar_to_dict /\ UNCHANGED <<fora_dos_rovers, rover_vars, codec, ws, ciclo, link, passo, cliente>>
    \/ enviar_limpa /\ UNCHANGED <<fora_dos_rovers, rover_vars, codec, ws, ciclo, link, passo, cliente>>
    \/ enviar_send_message /\ UNCHANGED <<fora_dos_rovers, rover_vars, codec, ws, ciclo, link, passo, cliente>>
    \/ \E estado \in InfoEstados, pro \in InfoProgressos :
         cliente_recv(estado, pro) /\ UNCHANGED <<fora_dos_rovers, rover_vars, codec, ws, ciclo, link, passo, sender>>
    \/ cliente.pc # "recv" /\ updateInfo
         /\ UNCHANGED <<fora_dos_rovers, rover_vars, codec, ws, ciclo, link, passo, sender>>
    \/ \E m \in SweepReceived :
         cicloML(m.data, m.addr, m.parsed) /\ UNCHANGED fora_da_nave

\* the mothership in the scenarios whose dispatcher assigns a mission to a first READY
InitSweep == Init /\ scenario \in {2, 3}

SpecSweep == InitSweep /\ [][NextSweep]_vars

(***************************************************************************)
(* The dispatcher with one rover and no operator, in the scenarios with a  *)
(* finite automatic queue.  The READY and ACK datagrams of the rover arrive *)
(* in any order and any number of times: a datagram that is lost is a step  *)
(* that is not taken, a retry is a READY taken again.                      *)
(***************************************************************************)
DrenaDatagrams ==
    ReadyDatagrams({ml_stream_id})
      \cup {Sent(rover_ack(ml_stream_id, MaxRoverSeq, ack), RoverAddr(ml_stream_id)) :
               ack \in 1..MaxDrenaSeq}

DrenaReceived == Received(DrenaDatagrams)

InitDrena ==
    Programa /\ scenario \in {2, 4} /\ codec = SemChamada
      /\ link = [SemLink EXCEPT !.drena = TRUE]

NextDrena ==
    \E m \in DrenaReceived : cicloML(m.data, m.addr, m.parsed) /\ UNCHANGED fora_da_nave

SpecDrena == InitDrena /\ [][NextDrena]_vars

(***************************************************************************)
(* NaveMae._cicloCliente: one TCP connection of a rover, frame by frame.     *)
(***************************************************************************)
\* hdr.tipo of the frames that are no INFO: HELLO and its literal 1, END, FIN, and a
\* type _imprimir only prints
TSTipos == {TYPE_HELLO, 1, TYPE_END, TYPE_FIN, 5}

\* _imprimir for a frame that is no INFO: each branch prints and returns, and the loop
\* of _cicloCliente goes on to its next read
imprimir(tipo) ==
    /\ cliente.pc = "recv"
    /\ cliente' = [cliente EXCEPT !.fim = @ \/ tipo \in {TYPE_END, TYPE_FIN, 3}]
    /\ UNCHANGED rovers

\* _receberExacto returns None, the peer having closed: the loop breaks and "with conn"
\* closes the connection
cliente_fecha ==
    /\ cliente.pc = "recv"
    /\ cliente' = [cliente EXCEPT !.pc = "fechada"]
    /\ UNCHANGED rovers

fora_do_cliente == <<fora_dos_rovers, rover_vars, codec, ws, ciclo, link, passo, sender>>

NextCliente ==
    \/ \E estado \in InfoEstados, pro \in InfoProgressos :
         cliente_recv(estado, pro) /\ UNCHANGED fora_do_cliente
    \/ cliente.pc \notin {"recv", "fechada"} /\ updateInfo /\ UNCHANGED fora_do_cliente
    \/ \E tipo \in TSTipos : imprimir(tipo) /\ UNCHANGED fora_do_cliente
    \/ cliente_fecha /\ UNCHANGED fora_do_cliente

SpecCliente == InitSweep /\ [][NextCliente]_vars

(***************************************************************************)
(* The two ends of the Mission Link joined: what the rover hands to sendto *)
(* joins the queue of the mothership's socket and what the mothership      *)
(* hands to sendto joins the queue of the rover's socket.  The mothership  *)
(* runs scenario 1, so the missions are the operator's.                    *)
(***************************************************************************)
\* the operator's assign_mission for the mission of NaveMissoes
assign_curta ==
    [type |-> "assign_mission", rover_id |-> ml_stream_id, mission_id |-> 1, x |-> 3,
     y |-> 0, duracao |-> 2]

\* the bytes of the datagrams a step handed to sendto
Enviados(o) == [k \in 1..Len(o) |-> o[k].data]

\* the thread nome takes the step
Passo(nome) ==
    passo' = [nome |-> nome, par |-> IF passo.nome = nome THEN ~passo.par ELSE FALSE]

\* _cicloML takes the next datagram of its socket
link_nave ==
    /\ link.nave # <<>>
    /\ cicloML(Head(link.nave), RoverAddr(ml_stream_id), parse_message(Head(link.nave)))
    /\ link' = [link EXCEPT !.nave = Tail(@), !.rover = @ \o Enviados(out')]
    /\ Passo("nave")
    /\ UNCHANGED <<rover_vars, codec, ws, ciclo, sender, cliente>>

link_operador ==
    /\ ws_msg_recebida(assign_curta)
    /\ Passo("operador")
    /\ UNCHANGED <<rover_vars, codec, ws, ciclo, sender, cliente, link>>

\* the rover process runs: it is started once the operator has assigned the rover its
\* mission, or, where link.cedo says so, before that
arrancou == manual_task_counter > 1000 \/ link.cedo

\* moverRover left the rover without speed
parado == sim.pc = "moverRover" /\ rover'.velocidade = 0

\* a statement of rover.iterar(); a call of iterar starts a tick, and not more than
\* MaxTicks of them start between two statements of the other thread
link_iterar ==
    /\ arrancou
    /\ iterar
    /\ parado => link.parados < MaxParados
    /\ sim.pc = "iterar" => link.ticks < MaxTicks
    /\ link' = [link EXCEPT !.sonos = IF sim.pc = "iterar" THEN 0 ELSE @,
                            !.ticks = IF sim.pc = "iterar" THEN @ + 1 ELSE @,
                            !.parados = IF parado THEN @ + 1 ELSE @]
    /\ Passo("iterar")
    /\ UNCHANGED <<nave_vars, codec, ws, ciclo, sender, cliente>>

\* the thread of _cicloMissionLink goes from the end of a PROGRESS round to the next
\* one: "time.sleep(0.3)"
sleep_progress == api.pc = "fim_ciclo" /\ api'.pc = "if_missao"

\* the thread sends a READY while the operator has nothing queued for the rover
pronto == api.pc = "ready" /\ Get(manual_missions, ml_stream_id) = None

\* a statement of the thread of _cicloMissionLink other than recvfrom.  The rover
\* process is started once the operator has assigned the rover its mission.  Here a
\* call of iterar, once started, runs to its return before the other thread of the
\* rover takes its next statement.
link_rover ==
    /\ sim.pc = "iterar"
    /\ api.pc \notin {"recv_reply", "recvfrom"}
    /\ arrancou
    /\ cicloMissionLink \/ send_reliable
    /\ sleep_progress => link.sonos < MaxSonos
    /\ pronto => link.prontos < MaxProntos
    /\ link' = [link EXCEPT !.nave = @ \o Enviados(rover_out'),
                            !.sonos = IF sleep_progress THEN @ + 1 ELSE @,
                            !.prontos = IF pronto THEN @ + 1 ELSE @,
                            !.ticks = 0]
    /\ Passo("rover")
    /\ UNCHANGED <<nave_vars, codec, ws, ciclo, sender, cliente>>

\* recvfrom returns the next datagram of the rover's socket
link_recvfrom ==
    /\ sim.pc = "iterar"
    /\ link.rover # <<>>
    /\ \/ api.pc = "recv_reply" /\ recebe_resposta(Head(link.rover))
       \/ api.pc = "recvfrom" /\ recebe_ack(Head(link.rover))
    /\ link' = [link EXCEPT !.rover = Tail(@), !.nave = @ \o Enviados(rover_out'),
                            !.prontos = IF api'.pc = "destino" THEN 0 ELSE @,
                            !.ticks = 0]
    /\ Passo("recvfrom")
    /\ UNCHANGED <<rover, sim, nave_vars, codec, ws, ciclo, sender, cliente>>

\* the two ends joined, nothing sent yet
Link == [SemLink EXCEPT !.ligado = TRUE]

InitLink == Programa /\ scenario = 1 /\ codec = SemChamada /\ link = Link

(***************************************************************************)
(* A run without loss: every datagram is delivered and the reply is there  *)
(* before the timer of recvfrom expires.  Each thread keeps running.       *)
(***************************************************************************)
NextFeliz ==
    \/ link_nave
    \/ link_operador
    \/ link_iterar
    \/ link_rover
    \/ link_recvfrom

\* States in which the step of a thread is possible, read off the guards of the
\* four actions; each implies that its action is enabled.
pode_nave ==
    /\ link.nave # <<>>
    /\ ml_seq <= limite_ml_seq

pode_iterar ==
    /\ arrancou
    /\ sim.pc = "iterar" => link.ticks < MaxTicks
    /\ sim.pc = "moverRover" => rover.velocidade <= MaxVel /\ MaxVel > 0
    /\ sim.pc = "work_working" => rover.working < MaxWorking

pode_rover ==
    /\ sim.pc = "iterar"
    /\ api.pc \notin {"recv_reply", "recvfrom"}
    /\ arrancou
    /\ api.ml_seq <= limite_rover_ml_seq
    /\ (api.pc = "fim_ciclo" /\ ~(api.loc.perto \/ api.loc.percent >= 100))
         => link.sonos < MaxSonos
    /\ pronto => link.prontos < MaxProntos

pode_recvfrom ==
    /\ sim.pc = "iterar"
    /\ link.rover # <<>>
    /\ api.pc \in {"recv_reply", "recvfrom"}
    /\ api.ml_seq <= limite_rover_ml_seq

\* The step of each thread as the history variable passo shows it: passo changes in
\* every step, and takes the name of a thread in the steps of that thread only.
vez_nave == pode_nave /\ Passo("nave")

vez_iterar == pode_iterar /\ Passo("iterar")

vez_rover == pode_rover /\ Passo("rover")

vez_recvfrom == pode_recvfrom /\ Passo("recvfrom")

\* Each thread that can take a step eventually takes one: _cicloML, _cicloEnvio and
\* _cicloMissionLink are "while True" loops of threads that the scheduler of the
\* interpreter and of the operating system keep running.
SpecFeliz ==
    /\ InitLink
    /\ [][NextFeliz]_vars
    /\ WF_passo(vez_nave)
    /\ WF_passo(vez_iterar)
    /\ WF_passo(vez_rover)
    /\ WF_passo(vez_recvfrom)

(***************************************************************************)
(* A run with loss: the channel drops datagrams, at most MaxPerdas of      *)
(* them, and recvfrom of the rover times out when neither the datagram the *)
(* rover sent nor a reply to it is on its way.  The rover process may      *)
(* start before the operator's message.                                    *)
(***************************************************************************)
\* the channel drops the next datagram of one direction
link_perde ==
    /\ sim.pc = "iterar"
    /\ link.perdas < MaxPerdas
    /\ \/ /\ link.nave # <<>>
          /\ link' = [link EXCEPT !.nave = Tail(@), !.perdas = @ + 1]
       \/ /\ link.rover # <<>>
          /\ link' = [link EXCEPT !.rover = Tail(@), !.perdas = @ + 1]
    /\ Passo("perde")
    /\ UNCHANGED <<nave_vars, rover_vars, codec, ws, ciclo, sender, cliente>>

\* nothing is on its way to either end
canal_vazio == link.nave = <<>> /\ link.rover = <<>>

\* socket.timeout in recvfrom of the rover
link_timeout ==
    /\ sim.pc = "iterar"
    /\ canal_vazio
    /\ \/ api.pc = "recv_reply" /\ timeout_resposta
       \/ api.pc = "recvfrom" /\ timeout_ack
    /\ link' = [link EXCEPT !.ticks = 0]
    /\ Passo("timeout")
    /\ UNCHANGED <<rover, sim, nave_vars, codec, ws, ciclo, sender, cliente>>

pode_timeout ==
    /\ sim.pc = "iterar"
    /\ canal_vazio
    /\ api.pc \in {"recv_reply", "recvfrom"}

vez_timeout == pode_timeout /\ Passo("timeout")

\* the rover process may start early, and random.choice never leaves the rover
\* without speed
LinkPerdas == [Link EXCEPT !.cedo = TRUE, !.parados = MaxParados]

InitPerdas == Programa /\ scenario = 1 /\ codec = SemChamada /\ link = LinkPerdas

NextPerdas ==
    \/ link_nave
    \/ link_operador
    \/ link_iterar
    \/ link_rover
    \/ link_recvfrom
    \/ link_perde
    \/ link_timeout

\* The threads keep running as in SpecFeliz; the channel is under no obligation, but
\* it has only MaxPerdas datagrams to lose, so from some point on it delivers.
SpecPerdas ==
    /\ InitPerdas
    /\ [][NextPerdas]_vars
    /\ WF_passo(vez_nave)
    /\ WF_passo(vez_iterar)
    /\ WF_passo(vez_rover)
    /\ WF_passo(vez_recvfrom)
    /\ WF_passo(vez_timeout)

(***************************************************************************)
(* Steps of the ML loop, named by the datagram they handle, and what a     *)
(* step sent.                                                              *)
(***************************************************************************)
\* the branches the ML loop records for a well-formed datagram of each type
BranchesOf(msg_type) ==
    IF msg_type = TYPE_READY THEN {"ready_resend", "ready_nomission", "ready_mission"}
    ELSE IF msg_type = TYPE_PROGRESS
         THEN {"progress_invalid", "progress_fora_de_contexto", "progress_duplicado", "progress"}
    ELSE IF msg_type = TYPE_DONE
         THEN {"done_invalid", "done_fora_de_contexto", "done_duplicado", "done"}
    ELSE IF msg_type = TYPE_ACK
         THEN {"ack_sem_pendente", "ack_mission", "ack_nomission", "ack_outro"}
    ELSE {"tipo_desconhecido"}

\* the step handles the well-formed datagram m: it is a step of the ML loop on m,
\* and so one that records a branch of m's type and m's stream
Handles(m) ==
    /\ last'.sid = m.parsed.header.stream_id
    /\ last'.branch \in BranchesOf(m.parsed.header.msg_type)
    /\ cicloML(m.data, m.addr, m.parsed)

\* the step handles a READY of stream s
ReadyFrom(s) ==
    \E m \in HandshakeReceived :
        /\ m.parsed.header.msg_type = TYPE_READY
        /\ m.parsed.header.stream_id = s
        /\ Handles(m)

\* the step handles an ACK of stream s that carries ack = a
AckFrom(s, a) ==
    \E m \in HandshakeReceived :
        /\ m.parsed.header.msg_type = TYPE_ACK
        /\ m.parsed.header.stream_id = s
        /\ m.parsed.header.ack = a
        /\ Handles(m)

\* the step handles an ACK of any stream
AckStep == \E s \in Streams, a \in 1..MaxMlSeq : AckFrom(s, a)

\* the pending entry of stream s holds a MISSION reply
PendingMission(s) ==
    s \in DOMAIN ml_pending_mission /\ ml_pending_mission[s].mission_seq # None

\* the mission tuple a MISSION payload carries
MissaoEnviada(payload) ==
    LET p == parse_payload_mission(payload)
    IN  <<p.mission_id, p.task_number, p.x, p.y, p.radius, p.duracao>>

(***************************************************************************)
(* READY idempotence.                                                      *)
(***************************************************************************)
\* C1: while stream s has a pending reply, a READY of s (any seq, any flags) is
\* answered with exactly the cached reply bytes, which are the bytes sent when the
\* entry was made; the step allocates no sequence number and changes no queue,
\* dispatcher record, task_counter or pending entry.
C1_ReadyIdempotence ==
    [][\A s \in Streams :
         ReadyFrom(s) =>
           /\ s \in DOMAIN ml_pending_mission =>
                /\ out' = <<Sent(ml_pending_mission[s].reply_bytes, RoverAddr(s))>>
                /\ UNCHANGED <<ml_seq, tarefas, manual_missions, ml_estado, task_counter,
                               ml_pending_mission>>
           /\ s \notin DOMAIN ml_pending_mission =>
                /\ s \in DOMAIN ml_pending_mission'
                /\ out' = <<Sent(ml_pending_mission'[s].reply_bytes, RoverAddr(s))>>]_vars

\* a READY was answered from the cache with the MISSION reply of an earlier READY
C1_Witness ==
    /\ last.branch = "ready_resend"
    /\ PendingMission(last.sid)
    /\ out = <<Sent(ml_pending_mission[last.sid].reply_bytes, RoverAddr(last.sid))>>
    /\ parse_message(out[1].data).header.msg_type = TYPE_MISSION

(***************************************************************************)
(* Consumption of the queues.                                              *)
(***************************************************************************)
\* the manual queue of stream s in the dict mm (empty when s is no key)
ManualQueue(mm, s) == IF s \in DOMAIN mm THEN mm[s] ELSE <<>>

IsPrefix(a, b) == Len(a) <= Len(b) /\ SubSeq(b, 1, Len(a)) = a

\* the step handles the ACK that matches the pending MISSION reply of stream s
MatchingAck(s) ==
    PendingMission(s) /\ AckFrom(s, ml_pending_mission[s].mission_seq[1])

\* C2: a step that handles a READY changes neither queue, and a READY retried while
\* a MISSION reply is pending is answered with the mission of that reply; the
\* automatic queue and a manual queue lose a mission only in a step that handles an
\* ACK with ack = pending.mission_seq of its stream, and then they lose their head,
\* which is the mission that pending reply carried.
C2_AckDrivenConsumption ==
    [][/\ \A s \in Streams : ReadyFrom(s) => UNCHANGED <<tarefas, manual_missions>>
       /\ \A s \in Streams :
            PendingMission(s) /\ ReadyFrom(s) =>
              Some(MissaoEnviada(parse_message(out'[1].data).payload))
                = ml_pending_mission[s].missao
       /\ tarefas' # tarefas =>
            /\ tarefas # <<>>
            /\ tarefas' = Tail(tarefas)
            /\ \E s \in Streams :
                 MatchingAck(s) /\ ml_pending_mission[s].missao = Some(tarefas[1])
       /\ \A s \in Streams :
            ~IsPrefix(ManualQueue(manual_missions, s), ManualQueue(manual_missions', s)) =>
              /\ ManualQueue(manual_missions', s) = Tail(ManualQueue(manual_missions, s))
              /\ MatchingAck(s)
              /\ ml_pending_mission[s].missao = Some(manual_missions[s][1])]_vars

\* a READY was retried while the MISSION reply that carries the head of the automatic
\* queue is pending, and that mission is still the head
C2_Witness ==
    /\ last.branch = "ready_resend"
    /\ PendingMission(last.sid)
    /\ tarefas # <<>>
    /\ ml_pending_mission[last.sid].missao = Some(tarefas[1])
    /\ Some(MissaoEnviada(parse_message(out[1].data).payload)) = Some(tarefas[1])

\* C3: a READY of stream s that finds no pending reply and a non-empty
\* manual_missions[s] is answered with a MISSION that carries the head of
\* manual_missions[s], in every scenario and whatever the automatic queue holds; the
\* pending entry records that mission and task_counter is unchanged.
C3_ManualPriority ==
    [][\A s \in Streams :
         (/\ s \notin DOMAIN ml_pending_mission
          /\ ManualQueue(manual_missions, s) # <<>>
          /\ ReadyFrom(s)) =>
           /\ Len(out') = 1
           /\ out'[1].addr = RoverAddr(s)
           /\ parse_message(out'[1].data).ok
           /\ parse_message(out'[1].data).header.msg_type = TYPE_MISSION
           /\ MissaoEnviada(parse_message(out'[1].data).payload) = manual_missions[s][1]
           /\ ml_pending_mission'[s].missao = Some(manual_missions[s][1])
           /\ UNCHANGED task_counter]_vars

\* in scenario 3 a READY was answered with the head of the rover's manual queue
C3_Witness ==
    /\ scenario = 3
    /\ last.branch = "ready_mission"
    /\ ManualQueue(manual_missions, last.sid) # <<>>
    /\ ml_pending_mission[last.sid].missao = Some(manual_missions[last.sid][1])
    /\ MissaoEnviada(parse_message(out[1].data).payload) = manual_missions[last.sid][1]

\* C4: in scenario 3, the step that handles the ACK confirming a manual mission pops
\* that mission from manual_missions[stream_id], removes the key when the queue
\* becomes empty, and does not increment task_counter.
C4_ManualAckScenario3 ==
    [][\A s \in Streams :
         (/\ scenario = 3
          /\ MatchingAck(s)
          /\ ManualQueue(manual_missions, s) # <<>>
          /\ ml_pending_mission[s].missao = Some(manual_missions[s][1])) =>
           /\ ManualQueue(manual_missions', s) = Tail(manual_missions[s])
           /\ Tail(manual_missions[s]) = <<>> => s \notin DOMAIN manual_missions'
           /\ task_counter' = task_counter]_vars

\* the number of consumption effects of a step on stream s
Efeitos(s) ==
    (IF /\ ManualQueue(manual_missions, s) # <<>>
        /\ ManualQueue(manual_missions', s) = Tail(ManualQueue(manual_missions, s))
     THEN 1 ELSE 0)
      + (IF tarefas # <<>> /\ tarefas' = Tail(tarefas) THEN 1 ELSE 0)
      + (IF task_counter' # task_counter THEN 1 ELSE 0)

\* C5: the step that handles the first ACK with ack = mission_seq of a MISSION reply
\* commits exactly one consumption effect (pop of the manual head, pop of the
\* automatic head in scenarios 2 and 4, increment of task_counter in scenario 3); a
\* later ACK with an ack value already confirmed on that stream changes no queue, no
\* counter and no pending entry.
C5_ExactlyOnce ==
    [][\A s \in Streams, a \in 1..MaxMlSeq :
         AckFrom(s, a) =>
           /\ (PendingMission(s) /\ ml_pending_mission[s].mission_seq = Some(a)) =>
                Efeitos(s) = 1
           /\ a \in confirmed[s] =>
                UNCHANGED <<tarefas, manual_missions, task_counter, ml_pending_mission>>]_vars

(***************************************************************************)
(* PROGRESS and DONE of the rover.                                         *)
(***************************************************************************)
\* the PROGRESS datagrams of the rover, each with the mission id its payload carries
ProgressReceived ==
    {[data |-> m.data, addr |-> m.addr, parsed |-> m.parsed,
      mission_id |-> parse_payload_progress(m.parsed.payload).mission_id] :
        m \in {x \in TelemetryReceived : x.parsed.header.msg_type = TYPE_PROGRESS}}

\* the DONE datagrams of the rover, each with the mission id its payload carries
DoneReceived ==
    {[data |-> m.data, addr |-> m.addr, parsed |-> m.parsed,
      mission_id |-> parse_payload_done(m.parsed.payload).mission_id] :
        m \in {x \in TelemetryReceived : x.parsed.header.msg_type = TYPE_DONE}}

\* the mission id a PROGRESS or DONE datagram carries
MissionIdOf(m) == m.mission_id

\* the datagram m is for the mission the dispatcher record of its stream holds
ForActiveMission(m) ==
    /\ m.parsed.header.stream_id \in DOMAIN ml_estado
    /\ ml_estado[m.parsed.header.stream_id].mission_id = MissionIdOf(m)

\* the step sent one datagram, to addr: an ACK with this ack
SentAck(addr, ack) ==
    /\ Len(out') = 1
    /\ out'[1].addr = addr
    /\ parse_message(out'[1].data).ok
    /\ parse_message(out'[1].data).header.msg_type = TYPE_ACK
    /\ parse_message(out'[1].data).header.ack = ack

\* the state predicate of the same: the last step sent an ACK with this ack
LastSentAck(ack) ==
    /\ Len(out) = 1
    /\ parse_message(out[1].data).header.msg_type = TYPE_ACK
    /\ parse_message(out[1].data).header.ack = ack

\* C6: a PROGRESS for the active mission whose seq equals ml_last_seq[stream_id] is
\* answered with an ACK with ack = that seq; ultimo_progress is not overwritten and
\* ml_last_seq and task_counter are unchanged.
C6_DuplicateProgress ==
    [][\A m \in ProgressReceived :
         (/\ ForActiveMission(m)
          /\ Get(ml_last_seq, m.parsed.header.stream_id) = Some(m.parsed.header.seq)
          /\ Handles(m)) =>
           /\ SentAck(m.addr, m.parsed.header.seq)
           /\ UNCHANGED <<ml_estado, ml_last_seq, task_counter>>]_vars

\* a PROGRESS was handled as a duplicate of the one stored
C6_Witness ==
    /\ last.branch = "progress_duplicado"
    /\ ml_estado[last.sid].ultimo_progress # None
    /\ LastSentAck(ml_last_seq[last.sid])

\* C7: a PROGRESS for the active mission whose seq is strictly lower than
\* ml_last_seq[stream_id] is answered with an ACK and discarded: ultimo_progress and
\* ml_last_seq are unchanged.
C7_StaleProgress ==
    [][\A m \in ProgressReceived :
         (/\ ForActiveMission(m)
          /\ m.parsed.header.stream_id \in DOMAIN ml_last_seq
          /\ m.parsed.header.seq < ml_last_seq[m.parsed.header.stream_id]
          /\ Handles(m)) =>
           /\ SentAck(m.addr, m.parsed.header.seq)
           /\ UNCHANGED <<ml_estado, ml_last_seq>>]_vars

\* C8: every DONE is answered with an ACK with ack = its seq; a DONE that was
\* already delivered since the last MISSION was assigned to its stream leaves
\* ml_estado, ml_last_seq, both queues and the pending cache as they are, and only
\* ml_seq advances.
C8_DoneReplay ==
    [][\A m \in DoneReceived :
         Handles(m) =>
           /\ SentAck(m.addr, m.parsed.header.seq)
           /\ <<m.parsed.header.seq, m.parsed.payload>>
                \in done_seen[m.parsed.header.stream_id] =>
                /\ UNCHANGED <<ml_estado, ml_last_seq, tarefas, manual_missions, task_counter,
                               ml_pending_mission, rovers>>
                /\ ml_seq' = ml_seq + 1]_vars

\* the DONE that set done was delivered once more
C8_Witness ==
    /\ last.branch = "done_duplicado"
    /\ ml_estado[last.sid].done
    /\ \E d \in done_seen[last.sid] : d[1] = ml_last_seq[last.sid] /\ LastSentAck(d[1])

\* C9: a well-formed PROGRESS or DONE for a stream with no dispatcher record, or
\* whose mission_id differs from the record's, is answered with an ACK with
\* ack = header.seq and changes neither the dispatcher records, ml_last_seq, the
\* queues, the pending cache nor the mirror rovers.
C9_OutOfContext ==
    [][\A m \in ProgressReceived \cup DoneReceived :
         (~ForActiveMission(m) /\ Handles(m)) =>
           /\ SentAck(m.addr, m.parsed.header.seq)
           /\ UNCHANGED <<ml_estado, ml_last_seq, tarefas, manual_missions, task_counter,
                          ml_pending_mission, rovers>>]_vars

\* a PROGRESS for another mission than the one the record holds was acknowledged
C9_Witness ==
    /\ last.branch = "progress_fora_de_contexto"
    /\ last.sid \in DOMAIN ml_estado
    /\ Len(out) = 1
    /\ parse_message(out[1].data).header.msg_type = TYPE_ACK

\* C10: every stored PROGRESS has a percent in 0..100 and the mission_id of the
\* record it is stored in.
C10_StoredProgress ==
    \A s \in DOMAIN ml_estado :
        ml_estado[s].ultimo_progress # None =>
          /\ 0 <= ml_estado[s].ultimo_progress[1].percent
          /\ ml_estado[s].ultimo_progress[1].percent <= 100
          /\ ml_estado[s].ultimo_progress[1].mission_id = ml_estado[s].mission_id

\* a PROGRESS built from a progresso above 100 is stored with percent 100
C10_Witness ==
    \E s \in DOMAIN ml_estado :
        /\ ml_estado[s].ultimo_progress # None
        /\ ml_estado[s].ultimo_progress[1].percent = 100
        /\ last.branch = "progress"


(***************************************************************************)
(* The dispatcher record and the acknowledgement of the MISSION.           *)
(***************************************************************************)
\* the step handles a PROGRESS whose seq is above every seq seen on its stream
FreshSeq(m) ==
    \/ m.parsed.header.stream_id \notin DOMAIN ml_last_seq
    \/ m.parsed.header.seq > ml_last_seq[m.parsed.header.stream_id]

\* C11: while the MISSION reply of a stream is pending (its ACK has not arrived),
\* the dispatcher record of the stream is the record of the mission that reply
\* carries, and a PROGRESS for that mission with a seq above those seen is
\* acknowledged and stored in the record, and the pending reply stays in the cache.
C11_ProgressBeforeAck ==
    [][/\ \A s \in TelemetryStreams :
            PendingMission(s) =>
              /\ s \in DOMAIN ml_estado
              /\ ml_pending_mission[s].missao = Some(<<ml_estado[s].mission_id,
                     ml_estado[s].task_number, ml_estado[s].target[1],
                     ml_estado[s].target[2], ml_estado[s].radius, ml_estado[s].duracao>>)
       /\ \A m \in ProgressReceived :
            (/\ PendingMission(m.parsed.header.stream_id)
             /\ ForActiveMission(m)
             /\ FreshSeq(m)
             /\ Handles(m)) =>
               /\ SentAck(m.addr, m.parsed.header.seq)
               /\ ml_estado'[m.parsed.header.stream_id].ultimo_progress =
                    Some(InfoProgress(parse_payload_progress(m.parsed.payload)))
               /\ UNCHANGED ml_pending_mission]_vars

\* a PROGRESS was stored while the MISSION reply of its stream was still pending
C11_Witness ==
    /\ last.branch = "progress"
    /\ PendingMission(last.sid)
    /\ confirmed[last.sid] = {}
    /\ ml_estado[last.sid].ultimo_progress # None


(***************************************************************************)
(* Malformed datagrams.                                                    *)
(***************************************************************************)
\* the reply of the step is one MISSION or NOMISSION to addr that acknowledges seq
SentReply(addr, seq) ==
    /\ Len(out') = 1
    /\ out'[1].addr = addr
    /\ parse_message(out'[1].data).ok
    /\ parse_message(out'[1].data).header.msg_type \in {TYPE_MISSION, TYPE_NOMISSION}
    /\ parse_message(out'[1].data).header.ack = seq

\* C12: the ML loop drops a datagram that is shorter than the header, whose payload
\* is shorter than payload_len, or whose checksum does not match: it sends nothing
\* and changes no dispatcher, queue, pending or mirror-rover state; and a READY of
\* the same rover handled right after a drop, when no reply is pending, is answered
\* with a MISSION or NOMISSION that acknowledges it and is cached.
C12_MalformedDropped ==
    [][/\ \A m \in MalformedReceived :
            cicloML(m.data, m.addr, m.parsed) =>
              /\ out' = <<>>
              /\ UNCHANGED <<scenario, tarefas, task_counter, manual_missions,
                             manual_task_counter, ml_seq, ml_estado, ml_last_seq,
                             ml_pending_mission, rovers>>
       /\ \A m \in ErrorsReceived \ MalformedReceived :
            (/\ last.branch = "invalida"
             /\ m.parsed.header.msg_type = TYPE_READY
             /\ m.parsed.header.stream_id \notin DOMAIN ml_pending_mission
             /\ Handles(m)) =>
               /\ SentReply(m.addr, m.parsed.header.seq)
               /\ m.parsed.header.stream_id \in DOMAIN ml_pending_mission'
               /\ ml_pending_mission'[m.parsed.header.stream_id].reply_bytes
                    = out'[1].data]_vars

\* a datagram was dropped while a MISSION reply was pending and a record existed
C12_Witness ==
    /\ last.branch = "invalida"
    /\ out = <<>>
    /\ \E s \in TelemetryStreams : PendingMission(s) /\ s \in DOMAIN ml_estado

(***************************************************************************)
(* The missions a scenario hands out.                                      *)
(***************************************************************************)
\* C14: in scenario 1, with one rover and no mission of the operator, the first READY
\* is answered with a MISSION; and once a MISSION was confirmed and its DONE accepted,
\* a READY that finds no pending reply is answered with NOMISSION.
C14_ScenarioOne ==
    [][\A m \in TelemetryReceived :
         (/\ scenario = 1
          /\ manual_task_counter = 1000
          /\ m.parsed.header.msg_type = TYPE_READY
          /\ m.parsed.header.stream_id \notin DOMAIN ml_pending_mission
          /\ Handles(m)) =>
           /\ parse_message(out'[1].data).ok
           /\ ml_estado = EmptyDict =>
                parse_message(out'[1].data).header.msg_type = TYPE_MISSION
           /\ (/\ m.parsed.header.stream_id \in DOMAIN ml_estado
               /\ ml_estado[m.parsed.header.stream_id].done
               /\ confirmed[m.parsed.header.stream_id] # {}) =>
                parse_message(out'[1].data).header.msg_type = TYPE_NOMISSION]_vars

\* C16: in scenario 3, the dispatcher records of two different rovers never hold
\* generated missions with the same task_number.
C16_TaskNumberUnique ==
    scenario = 3 =>
      \A s1, s2 \in DOMAIN ml_estado :
          (/\ s1 # s2
           /\ ml_estado[s1].task_number <= 1000
           /\ ml_estado[s2].task_number <= 1000) =>
            ml_estado[s1].task_number # ml_estado[s2].task_number

(***************************************************************************)
(* Messages of the operator.                                               *)
(***************************************************************************)
\* C19: an assign_mission whose mission_id is outside 1..6 is discarded: the step
\* that receives it leaves manual_missions and manual_task_counter as they are.
C19_OperatorValidation ==
    [][\A r \in TelemetryStreams :
         ws_msg_recebida(assign_mission_fora(r)) =>
           UNCHANGED <<manual_missions, manual_task_counter>>]_vars

(***************************************************************************)
(* The rover process.                                                      *)
(***************************************************************************)
\* the number of PROGRESS datagrams among the first i entries of h
RECURSIVE ProgressAte(_, _)
ProgressAte(h, i) ==
    IF i = 0 THEN 0
    ELSE ProgressAte(h, i - 1) + (IF h[i][1] = TYPE_PROGRESS THEN 1 ELSE 0)

\* C13: in a first exchange without a loss, the READY of the rover carries seq 1 and the
\* k-th PROGRESS of the mission carries seq k + 1.
C13_HappyPathSeqs ==
    \A i \in 1..Len(api.hist) :
        /\ api.hist[i][1] = TYPE_READY => api.hist[i][2] = 1
        /\ api.hist[i][1] = TYPE_PROGRESS => api.hist[i][2] = ProgressAte(api.hist, i) + 1

\* the MissionLink thread holds no mission: it is about to send READY or waits for the
\* reply to it
SemMissao == api.pc \in {"ready", "recv_reply"}

\* C15: once the first mission ran without a loss and the rover reset its mission
\* fields, every call of iterar leaves the rover IDLE with missao 0 and progresso 0 for
\* as long as no new mission is assigned.
C15_FinalRoverState ==
    (api.feliz /\ api.feitas = 1 /\ SemMissao /\ sim.pc = "iterar") =>
        (rover.state = 0 /\ rover.missao = 0 /\ rover.progresso = 0)

\* the MissionLink thread is outside the statements that assign a mission and outside
\* those that reset it
ForaDeAtribuicao ==
    api.pc \in {"ready", "recv_reply", "if_missao", "percent", "dist", "progress",
                "fim_ciclo", "done", "send_reliable", "recvfrom"}

\* C17: between two calls of iterar and outside the assignment and the reset of a
\* mission, missao is 0 exactly when progresso is 0 and state is not WORKING.
C17_RoverInvariant ==
    (sim.pc = "iterar" /\ ForaDeAtribuicao) =>
        (rover.missao = 0 <=> (rover.progresso = 0 /\ rover.state # 1))

\* C18: when a call of iterar leaves progresso = 100, the next call of iterar returns
\* with the rover IDLE and missao 0; and progresso stays within 0..100.
C18_ProgressComplete ==
    [][/\ (sim.pc # "iterar" /\ sim'.pc = "iterar" /\ sim.viu100) =>
            (rover'.state = 0 /\ rover'.missao = 0)
       /\ rover'.progresso \in 0..100]_vars

\* C20: send_reliable waits for an ACK only while fewer than max_retries receive
\* timeouts have occurred: after max_retries timeouts it has returned.
C20_RetryBudget ==
    api.pc = "recvfrom" => api.loc.retries < max_retries

\* C21: after send_reliable failed for a PROGRESS, the next datagram the rover sends is
\* a READY: no DONE is sent for the mission it gave up.
C21_AbortOnFailure ==
    (api.falhou /\ rover_out # <<>>) =>
        parse_message(rover_out[1].data).header.msg_type = TYPE_READY

(***************************************************************************)
(* The codecs.                                                             *)
(***************************************************************************)
\* C23: parse_message of a built message succeeds and returns the header fields that
\* were given, version 1, hdr_len 20, payload_len the length of the payload, checksum
\* the CRC-32 of the payload (0 when it is empty), and the same payload.
C23_MLRoundTrip ==
    codec.fase = "parsed" =>
        /\ codec.ret.ok
        /\ codec.ret.payload = codec.args.payload
        /\ codec.ret.header =
             [version |-> 1, msg_type |-> codec.args.msg_type, flags |-> codec.args.flags,
              hdr_len |-> 20, seq |-> codec.args.seq, ack |-> codec.args.ack,
              stream_id |-> codec.args.stream_id,
              payload_len |-> Len(codec.args.payload),
              checksum |-> compute_checksum(codec.args.payload)]
        /\ codec.args.payload = <<>> => codec.ret.header.checksum = <<0, 0>>
        /\ codec.args.payload = <<0>> => codec.ret.header.checksum = <<53762, 61325>>

C23_Witness ==
    /\ codec.fase = "parsed"
    /\ codec.args.seq = 2147483647
    /\ codec.args.ack = 0
    /\ codec.args.stream_id = 65535
    /\ codec.args.payload = <<0>>
    /\ codec.ret.ok

\* byte b is the doubled value v saturated to 0..255: 0 below 0, 255 from 255 on, and
\* the whole part of the value in between
Saturado(b, v) ==
    /\ b \in 0..255
    /\ v <= 0 => b = 0
    /\ v >= 510 => b = 255
    /\ (0 < v /\ v < 510) => (2 * b <= v /\ v < 2 * b + 2)

\* C24: decodificarFrame of an encoded frame succeeds, every field of its header and
\* of its payload is the value of the rover saturated to 0..255, payload_len is the
\* length of the payload and checksum its CRC-32.
C24_TSRoundTrip ==
    codec.fase = "decoded" =>
        LET r == codec.args.rover
            h == codec.ret.header
            q == codec.ret.payload
            payload_bytes == SubSeq(codec.data, TS_HEADER_SIZE + 1, Len(codec.data))
        IN  /\ codec.ret.ok
            /\ Len(codec.data) = TS_HEADER_SIZE + PAYLOAD_SIZE
            /\ Saturado(h.tipo, codec.args.tipo)
            /\ Saturado(h.id_rover, r.id)
            /\ Saturado(h.bateria, r.bateria)
            /\ Saturado(h.pos_x, r.pos_x)
            /\ Saturado(h.pos_y, r.pos_y)
            /\ Saturado(h.pos_z, r.pos_z)
            /\ Saturado(h.state, r.state)
            /\ Saturado(h.freq, codec.args.freq)
            /\ h.payload_len = Len(payload_bytes)
            /\ h.checksum = crc32(payload_bytes)
            /\ Saturado(q.proc_use, r.proc_use)
            /\ Saturado(q.storage, r.storage)
            /\ Saturado(q.velocidade, r.velocidade)
            /\ Saturado(q.direcao, r.direcao)
            /\ Saturado(q.sensores, r.sensores)
            /\ Saturado(q.progresso, r.progresso)
            /\ Saturado(q.x, r.destino[1])
            /\ Saturado(q.y, r.destino[2])
            /\ Saturado(q.z, r.destino[3])

C24_Witness ==
    /\ codec.fase = "decoded"
    /\ codec.ret.ok
    /\ codec.args.rover.pos_x = 600
    /\ codec.ret.header.pos_x = 255
    /\ codec.args.tipo = 2 * TYPE_INFO


(***************************************************************************)
(* The pending reply and the READY loop.                                   *)
(***************************************************************************)
\* C30: a step that handles a READY of stream s while the pending entry of s holds a
\* NOMISSION reply (mission_seq = None) clears that entry: after the step s has no
\* pending entry, or a new one made for this READY.
C30_NoMissionClearedByReady ==
    [][\A s \in Streams :
         (/\ s \in DOMAIN ml_pending_mission
          /\ ml_pending_mission[s].mission_seq = None
          /\ ReadyFrom(s)) =>
           \/ s \notin DOMAIN ml_pending_mission'
           \/ ml_pending_mission'[s] # ml_pending_mission[s]]_vars

\* C27: in scenarios 2 and 4, a READY of stream s is not answered with a MISSION
\* that carries a mission of the automatic queue (task_number <= 1000) which the
\* dispatcher record of another stream says was sent to that stream.
C27_AutomaticMissionOneRover ==
    [][(scenario \in {2, 4}) =>
         \A s \in Streams :
           (ReadyFrom(s) /\ last'.branch = "ready_mission") =>
             LET missao == MissaoEnviada(parse_message(out'[1].data).payload)
             IN  missao[2] <= 1000 =>
                   \A s2 \in DOMAIN ml_estado \ {s} :
                       missao[2] # ml_estado[s2].task_number]_vars

\* C26: once the dispatcher record of stream s holds a PROGRESS of its mission and
\* done = TRUE, set by the DONE the loop handled last (the rover went through the
\* PROGRESS and DONE phases of the mission it was sent), a READY of s is not answered
\* with a MISSION that carries the task_number of that record.
C26_MissionStartedOnce ==
    [][\A s \in TelemetryStreams :
         (/\ s \in DOMAIN ml_estado
          /\ ml_estado[s].ultimo_progress # None
          /\ ml_estado[s].done
          /\ last = Branch("done", s)
          /\ ReadyFrom(s)) =>
           LET r == parse_message(out'[1].data)
           IN  r.header.msg_type = TYPE_MISSION =>
                 MissaoEnviada(r.payload)[2] # ml_estado[s].task_number]_vars

(***************************************************************************)
(* The threads of the mothership.                                          *)
(***************************************************************************)
\* C25: every manual mission whose handler returned is in manual_missions[rover_id],
\* unless fila_manual.pop(0) took it while handling the ACK that confirms a MISSION
\* reply that carried it.
C25_NoManualMissionLost ==
    \A e \in ws.feitas :
        \/ e \in ciclo.consumidas
        \/ \E i \in DOMAIN ManualQueue(manual_missions, e[1]) :
               manual_missions[e[1]][i] = e[2]

\* C28: when the sender clears the dirty flag of a mirror rover that was set, the
\* batch of the sweep holds an entry for that rover and the entry equals what
\* to_dict returns for the rover at that moment.
C28_ConsistentSweep ==
    [][\A i \in 1..nRovers :
         (/\ sender.pc = "limpa"
          /\ sender.i = i
          /\ rovers[i].dirty
          /\ enviar_limpa) =>
           \E k \in DOMAIN sender.ficheiro : sender.ficheiro[k] = to_dict(rovers[i])]_vars


(***************************************************************************)
(* The mission cycle over a channel that loses nothing                     *)
(***************************************************************************)
\* the datagram the rover has just put on the wire has this type
RoverEnviou(msg_type) ==
    /\ rover_out # <<>>
    /\ parse_message(rover_out[1].data).header.msg_type = msg_type

\* the rover has just sent the DONE of the mission its loop is running
DoneEnviado ==
    /\ RoverEnviou(TYPE_DONE)
    /\ parse_payload_done(parse_message(rover_out[1].data).payload).mission_id
         = api.loc.mission_id

\* the dispatcher's record of the rover says done
DoneRegistado ==
    /\ ml_stream_id \in DOMAIN ml_estado
    /\ ml_estado[ml_stream_id].done

TarefasManuais == {1000 + k : k \in 1..MaxManual}

\* the manual mission with task id t waits in the queue of the rover
NaFila(t) ==
    \E i \in DOMAIN ManualQueue(manual_missions, ml_stream_id) :
        manual_missions[ml_stream_id][i][2] = t

\* the pending reply of the rover is the MISSION that carries task id t
PendenteDe(t) ==
    /\ PendingMission(ml_stream_id)
    /\ ml_pending_mission[ml_stream_id].missao[1][2] = t

\* the ML loop has just sent the rover a MISSION that carries task id t
EnviadaAgora(t) ==
    /\ out # <<>>
    /\ parse_message(out[1].data).header.msg_type = TYPE_MISSION
    /\ MissaoEnviada(parse_message(out[1].data).payload)[2] = t

\* the ML loop has just taken the mission with task id t from the queue, on an ACK
\* that matched the pending MISSION
ConsumidaAgora(t) ==
    /\ last = Branch("ack_mission", ml_stream_id)
    /\ manual_task_counter >= t
    /\ ~NaFila(t)

C31_AckWithoutEffect ==
    [][\A s \in Streams, a \in 1..MaxMlSeq :
         (/\ AckFrom(s, a)
          /\ \/ s \notin DOMAIN ml_pending_mission
             \/ PendingMission(s) /\ ml_pending_mission[s].mission_seq # Some(a))
         => UNCHANGED <<ml_pending_mission, tarefas, manual_missions, task_counter,
                        ml_estado>>]_vars

\* an ACK was handled whose ack is not the mission_seq of the pending MISSION reply,
\* and the entry is still there
C31_Witness ==
    /\ last.branch = "ack_outro"
    /\ PendingMission(last.sid)

(***************************************************************************)
(* Retransmission by send_reliable.                                        *)
(***************************************************************************)
\* a step of the thread that stays inside send_reliable
DentroDeSendReliable == api.pc \in SendReliablePcs /\ api'.pc \in SendReliablePcs

\* the step in which send_reliable returns True: the return inside the try block, which
\* the PROGRESS loop tells from False by going on to its sleep
RetornouTrue ==
    /\ api.pc = "recvfrom"
    /\ api'.pc \notin SendReliablePcs
    /\ api.loc.caller = "progress" => api'.pc = "fim_ciclo"

ReadyExpirou == passo.nome = "timeout" /\ api.pc = "ready"

\* the seq _next_ml_seq returned last: after ReadyExpirou, the seq of that READY
ultimo_seq == api.ml_seq - 1

\* C33: the READY the rover sends after the wait for the reply to a READY timed out
\* carries the seq of the READY that timed out, with the RETX flag set.
C33_ReadyRetransmission ==
    [][(ReadyExpirou /\ api'.pc = "recv_reply") =>
         LET h == parse_message(rover_out'[1].data).header
         IN  /\ h.msg_type = TYPE_READY
             /\ h.seq = ultimo_seq
             /\ BitAnd(h.flags, FLAG_RETX) = FLAG_RETX]_vars

(***************************************************************************)
(* The first DONE of the active mission.                                   *)
(***************************************************************************)
\* C35: the step that accepts the first DONE of the active mission of a stream sets
\* done, sends an ACK with ack = header.seq, and leaves the mirror rover of the stream
\* with assigned mission id 0.
C35_DoneClearsMirror ==
    [][\A m \in DoneReceived :
         (Handles(m) /\ last'.branch = "done") =>
           LET sid == m.parsed.header.stream_id
           IN  /\ ml_estado'[sid].done
               /\ SentAck(m.addr, m.parsed.header.seq)
               /\ sid \in DOMAIN rovers' => rovers'[sid].missao = 0]_vars

(***************************************************************************)
(* The transmissions of one call of send_reliable.                         *)
(***************************************************************************)
\* C34: a call of send_reliable transmits its message at most max_retries + 1 times,
\* whatever datagrams arrive while it waits.
C34_BoundedTransmissions == link.envios <= max_retries + 1

(***************************************************************************)
(* Dirty tracking.                                                         *)
(***************************************************************************)
\* the observable fields of a rover record that the mirror rovers of the model carry
Observaveis(r) == <<r.missao, r.state, r.progresso>>

\* C36: a step that changes an observable field of a rover record leaves that
\* record's dirty flag set; the mirror rovers, on which the dispatcher records the
\* assignment of a mission, are such records.
C36_DirtyTracking ==
    [][\A i \in DOMAIN rovers :
         Observaveis(rovers'[i]) # Observaveis(rovers[i]) => rovers'[i].dirty]_vars

(***************************************************************************)
(* An INFO frame applied to the mirror rover.                              *)
(***************************************************************************)
\* a step of the client thread inside Rover.updateInfo
PassoDeUpdateInfo == cliente.pc # "recv" /\ cliente' # cliente

\* C37: applying an INFO frame never changes the assigned mission id of the mirror
\* rover, and it sets dirty only after the assignment of a carried field that differed.
C37_InfoPreservesMission ==
    [][PassoDeUpdateInfo =>
         /\ rovers'[realIndex].missao = rovers[realIndex].missao
         /\ (rovers'[realIndex].dirty /\ ~rovers[realIndex].dirty) =>
              cliente.pc \in {"state_dirty", "progresso_dirty"}]_vars

(***************************************************************************)
(* END and FIN on a TS connection.                                         *)
(***************************************************************************)
\* C38: once the thread of a connection has decoded an END or a FIN frame, the only
\* step it takes is the close of the connection: it processes no further frame.
C38_EndClosesConnection ==
    [][(cliente.fim /\ cliente' # cliente) => cliente'.pc = "fechada"]_vars

(***************************************************************************)
(* Scenarios 2 and 4 drain, then idle.                                     *)
(***************************************************************************)
\* the missions of the scenario: 2 in scenario 2, 4 in scenario 4
NumMissoes == IF scenario = 2 THEN 2 ELSE 4

\* a is what is left of q after its first missions were taken
IsSuffix(a, q) ==
    Len(a) <= Len(q) /\ a = SubSeq(q, Len(q) - Len(a) + 1, Len(q))

\* what is left of the queue the scenario generated, whose missions are distinct, and
\* one confirmed mission_seq for each mission that left it
FilaEscoada(fila, confirmadas) ==
    \E q \in gerar_tarefas(scenario) :
        /\ Len(q) = NumMissoes
        /\ \A i, j \in DOMAIN q : i # j => q[i] # q[j]
        /\ IsSuffix(fila, q)
        /\ Len(fila) + Cardinality(confirmadas) = Len(q)

\* C39: with one rover and no operator, in scenarios 2 and 4, whatever READY and ACK
\* datagrams are lost and retried: a READY changes no queue; a MISSION reply carries
\* the head of the automatic queue, so the 2 or 4 missions are assigned in queue order
\* and no other; the head leaves the queue only at an ACK with ack = mission_seq of the
\* pending reply that carries it, one ACK for each mission; and once the queue is
\* empty every READY is answered with NOMISSION.
C39_DrainThenIdle ==
    [][\A m \in DrenaReceived :
         Handles(m) =>
           LET h == m.parsed.header
               reply == parse_message(out'[1].data)
           IN  /\ h.msg_type = TYPE_READY =>
                    /\ UNCHANGED tarefas
                    /\ reply.header.msg_type \in {TYPE_MISSION, TYPE_NOMISSION}
                    /\ reply.header.msg_type = TYPE_MISSION =>
                         /\ tarefas # <<>>
                         /\ MissaoEnviada(reply.payload) = tarefas[1]
                    /\ tarefas = <<>> => reply.header.msg_type = TYPE_NOMISSION
               /\ tarefas' # tarefas =>
                    /\ tarefas' = Tail(tarefas)
                    /\ h.msg_type = TYPE_ACK
                    /\ PendingMission(ml_stream_id)
                    /\ ml_pending_mission[ml_stream_id].mission_seq = Some(h.ack)
                    /\ ml_pending_mission[ml_stream_id].missao = Some(tarefas[1])
                    /\ h.ack \notin confirmed[ml_stream_id]
               /\ FilaEscoada(tarefas', confirmed'[ml_stream_id])]_vars

\* scenario 4 drained: four matching ACKs took the four missions, and a READY that
\* found nothing pending was answered with NOMISSION
C39_Witness ==
    /\ scenario = 4
    /\ tarefas = <<>>
    /\ Cardinality(confirmed[ml_stream_id]) = 4
    /\ last = Branch("ready_nomission", ml_stream_id)
    /\ parse_message(out[1].data).header.msg_type = TYPE_NOMISSION

(***************************************************************************)
(* The simulation step interleaved with the reset after DONE.              *)
(***************************************************************************)
\* C40: whenever missao is 0 the rover has progresso 0 and is not WORKING, in every
\* state between two calls of iterar in which the MissionLink thread is outside its
\* assignment and its reset of a mission, however the statements of the two threads
\* were interleaved before.
C40_ResetInterleaving ==
    (sim.pc = "iterar" /\ ForaDeAtribuicao /\ rover.missao = 0) =>
        (rover.progresso = 0 /\ rover.state # 1)

=============================================================================
